---- MODULE Spec2Model ----
(***************************************************************************)
(* Progress & Assessment Engine of the e-learning platform                 *)
(* (apps/learning/views.py, apps/learning/models.py).                      *)
(*                                                                         *)
(* The store is the user_progress table: a sequence of rows, a row's       *)
(* position being its primary key.  The specifications share the state:    *)
(*   Spec       requests are served one after the other; each handler is   *)
(*              one atomic action (the whole view, rollups included);      *)
(*   SpecConc   requests are served by concurrent workers; each database   *)
(*              statement of a handler is one atomic step (the project     *)
(*              runs in autocommit mode, config/settings.py sets no        *)
(*              ATOMIC_REQUESTS);                                          *)
(*   SpecRollup Spec with the two rollups also called on their own;        *)
(*   SpecFrame  the content operations and the rollups of two accounts;    *)
(*   SpecAssess quiz generation, answer evaluation and spoken-answer       *)
(*              grading, one step per call of a collaborator.              *)
(* progress_percentage is a FloatField; it is modelled as an exact         *)
(* fraction in lowest terms [num, den].                                    *)
(***************************************************************************)
EXTENDS Integers, Sequences, FiniteSets, TLC

\* A NULL foreign key.
NULL == "null"

\* A nullable number or timestamp: None, or Some(x).
None == <<>>

Some(x) == <<x>>

\* ---------------------------------------------------------------- bounds
\* Largest value of the clock: every request reads timezone.now() once more.
MaxClock == 3

\* Workers of the request-serving pool, each serving one request at a time.
NumWorkers == 2

\* ------------------------------------------------- content store (fixed)
Users == {"u1"}

\* Every account of the platform: the users above and one more, whose records
\* share the table.
Accounts == Users \cup {"u2"}

\* p1 holds the modules m1 and m2, p2 holds no module, p3 holds the module m3.
Paths == {"p1", "p2", "p3"}

\* m1 holds the content items c1 and c2, m2 holds c3, m3 holds none.
Modules == {"m1", "m2", "m3"}

Contents == {"c1", "c2", "c3"}

\* Module.learning_path
ModulePath == [m \in Modules |-> IF m = "m3" THEN "p3" ELSE "p1"]

\* Content.module
ContentModule == [c \in Contents |-> IF c = "c3" THEN "m2" ELSE "m1"]

\* module.contents.all()
module_contents(m) == {c \in Contents : ContentModule[c] = m}

\* learning_path.modules.all()
path_modules(p) == {m \in Modules : ModulePath[m] = p}

\* ---------------------------------------------------------- request data
\* request.data['progress_percentage'] (any number the client sends)
Percentages == {-5, 50, 150}

\* request.data['time_spent_minutes']
TimeDeltas == {-1, 2}

\* request.data['score'] (absent or a number)
Scores == {None, Some(7)}

\* The request data sent by clients that overlap in time.
ConcPercentages == {50, 150}

ConcTimeDeltas == {2}

\* ------------------------------------------------------------- fractions
RECURSIVE Gcd(_, _)
Gcd(a, b) == IF b = 0 THEN a ELSE Gcd(b, a % b)

Abs(x) == IF x < 0 THEN -x ELSE x

\* The number n/d (d > 0), in lowest terms.
Frac(n, d) ==
    LET g == Gcd(Abs(n), d)
    IN  [num |-> n \div g, den |-> d \div g]

FracGE(p, k) == p.num >= k * p.den

FracGT(p, k) == p.num > k * p.den

FracLE(p, k) == p.num <= k * p.den

\* min(progress_percentage, 100.0)
MinPct(x) == IF x < 100 THEN Frac(x, 1) ELSE Frac(100, 1)

\* ------------------------------------------------------------------ rows
Statuses == {"not_started", "in_progress", "completed"}

\* A new UserProgress row with the model's field defaults.
NewProgress(u, p, m, c) ==
    [user |-> u, learning_path |-> p, module |-> m, content |-> c,
     status |-> "not_started", progress_percentage |-> Frac(0, 1),
     time_spent_minutes |-> 0, score |-> None, attempts |-> 0,
     completed_at |-> None]

\* The filter with the user left out.
Matching_AnyUser(s, u, p, m, c) ==
    {i \in 1..Len(s) : /\ s[i].learning_path = p
                       /\ s[i].module = m
                       /\ s[i].content = c}

\* UserProgress.objects.filter(user, learning_path, module, content): the
\* primary keys of the rows with that key (NULL matches "__isnull=True").
Matching(s, u, p, m, c) ==
    {i \in 1..Len(s) : /\ s[i].user = u
                       /\ s[i].learning_path = p
                       /\ s[i].module = m
                       /\ s[i].content = c}

\* QuerySet.get_or_create(**key, defaults) when no other request runs between
\* its SELECT and its INSERT: the matching row, or a new row appended.
get_or_create(s, u, p, m, c, fresh) ==
    LET found == Matching(s, u, p, m, c)
    IN  IF found = {}
        THEN [s |-> Append(s, fresh), pk |-> Len(s) + 1, created |-> TRUE]
        ELSE [s |-> s, pk |-> CHOOSE i \in found : TRUE, created |-> FALSE]

\* mark_complete: the defaults of its get_or_create, and the assignments made
\* to a row that is not completed yet.
CompleteRow(r, t) ==
    [r EXCEPT !.status = "completed",
              !.progress_percentage = Frac(100, 1),
              !.completed_at = Some(t)]

\* ApplyUpdate with the status recomputed from the percentage on every call.
ApplyUpdate_Regress(r, pct, minutes, score, t) ==
    LET q  == MinPct(pct)
        r1 == [r EXCEPT !.progress_percentage = q,
                        !.time_spent_minutes = @ + minutes]
        r2 == IF score # None
              THEN [r1 EXCEPT !.score = score, !.attempts = @ + 1]
              ELSE r1
    IN  IF FracGE(q, 100)
        THEN [r2 EXCEPT !.status = "completed", !.completed_at = Some(t)]
        ELSE [r2 EXCEPT !.status = "in_progress"]

\* update_progress: the assignments between get_or_create and save().
ApplyUpdate(r, pct, minutes, score, t) ==
    LET q  == MinPct(pct)
        r1 == [r EXCEPT !.progress_percentage = q,
                        !.time_spent_minutes = @ + minutes]
        r2 == IF score # None
              THEN [r1 EXCEPT !.score = score, !.attempts = @ + 1]
              ELSE r1
    IN  IF FracGE(q, 100)
        THEN [r2 EXCEPT !.status = "completed", !.completed_at = Some(t)]
        ELSE IF r2.status = "not_started"
             THEN [r2 EXCEPT !.status = "in_progress"]
             ELSE r2

\* The assignments a rollup makes to the module-level or path-level row.
ApplyRollup(r, pct, t) ==
    LET r1 == [r EXCEPT !.progress_percentage = pct]
    IN  IF FracGE(pct, 100)
        THEN [r1 EXCEPT !.status = "completed", !.completed_at = Some(t)]
        ELSE IF FracGT(pct, 0)
             THEN [r1 EXCEPT !.status = "in_progress"]
             ELSE r1

\* completed_contents counting the records at 100 percent instead of the
\* completed ones.
completed_contents_ByPercentage(s, u, m) ==
    Cardinality({i \in 1..Len(s) : /\ s[i].user = u
                                   /\ s[i].module = m
                                   /\ s[i].content \in module_contents(m)
                                   /\ FracGE(s[i].progress_percentage, 100)})

\* completed_contents without the status filter.
completed_contents_AnyStatus(s, u, m) ==
    Cardinality({i \in 1..Len(s) : /\ s[i].user = u
                                   /\ s[i].module = m
                                   /\ s[i].content \in module_contents(m)})

\* The count of user u's completed content rows of module m.
completed_contents(s, u, m) ==
    Cardinality({i \in 1..Len(s) : /\ s[i].user = u
                                   /\ s[i].module = m
                                   /\ s[i].content \in module_contents(m)
                                   /\ s[i].status = "completed"})

\* completed_modules counting the modules with some progress, by percentage.
completed_modules_ByPercentage(s, u, p) ==
    Cardinality({i \in 1..Len(s) : /\ s[i].user = u
                                   /\ s[i].learning_path = p
                                   /\ s[i].module \in path_modules(p)
                                   /\ s[i].content = NULL
                                   /\ FracGT(s[i].progress_percentage, 0)})

\* The count of user u's completed module-level rows of path p.
completed_modules(s, u, p) ==
    Cardinality({i \in 1..Len(s) : /\ s[i].user = u
                                   /\ s[i].learning_path = p
                                   /\ s[i].module \in path_modules(p)
                                   /\ s[i].content = NULL
                                   /\ s[i].status = "completed"})

\* (completed / total) * 100
Percent(completed, total) == Frac(100 * completed, total)

\* _update_module_progress with get() in place of get_or_create(): a missing
\* module-level record is not created.
_update_module_progress_NoCreate(s, u, m, t) ==
    LET total == Cardinality(module_contents(m))
        found == Matching(s, u, ModulePath[m], m, NULL)
    IN  IF total = 0 \/ found = {}
        THEN s
        ELSE [s EXCEPT ![CHOOSE i \in found : TRUE] =
                  ApplyRollup(@, Percent(completed_contents(s, u, m), total), t)]

_update_module_progress(s, u, m, t) ==
    LET total == Cardinality(module_contents(m))
        goc   == get_or_create(s, u, ModulePath[m], m, NULL,
                               NewProgress(u, ModulePath[m], m, NULL))
        pct   == Percent(completed_contents(s, u, m), total)
    IN  IF total = 0
        THEN s
        ELSE [goc.s EXCEPT ![goc.pk] = ApplyRollup(@, pct, t)]

\* _update_learning_path_progress without the early return: a path without
\* modules is given a record at 0 percent.
_update_learning_path_progress_NoGuard(s, u, p, t) ==
    LET total == Cardinality(path_modules(p))
        goc   == get_or_create(s, u, p, NULL, NULL,
                               NewProgress(u, p, NULL, NULL))
        pct   == IF total = 0 THEN Frac(0, 1)
                 ELSE Percent(completed_modules(s, u, p), total)
    IN  [goc.s EXCEPT ![goc.pk] = ApplyRollup(@, pct, t)]

_update_learning_path_progress(s, u, p, t) ==
    LET total == Cardinality(path_modules(p))
        goc   == get_or_create(s, u, p, NULL, NULL,
                               NewProgress(u, p, NULL, NULL))
        pct   == Percent(completed_modules(s, u, p), total)
    IN  IF total = 0
        THEN s
        ELSE [goc.s EXCEPT ![goc.pk] = ApplyRollup(@, pct, t)]

\* The two rollups every content operation ends with, module first.
Rollups(s, u, c, t) ==
    LET m == ContentModule[c]
    IN  _update_learning_path_progress(
            _update_module_progress(s, u, m, t), u, ModulePath[m], t)

\* The store after mark_complete(u, c) at time t.
mark_complete(s, u, c, t) ==
    LET m   == ContentModule[c]
        p   == ModulePath[m]
        goc == get_or_create(s, u, p, m, c,
                             CompleteRow(NewProgress(u, p, m, c), t))
        s1  == IF ~goc.created /\ goc.s[goc.pk].status # "completed"
               THEN [goc.s EXCEPT ![goc.pk] = CompleteRow(@, t)]
               ELSE goc.s
    IN  Rollups(s1, u, c, t)

\* ===================================================== text and JSON values
\* A Python str is a sequence of characters, each a one-character string; the
\* backquote, which a TLA+ string cannot hold, is the string "BACKQUOTE".
BT == "BACKQUOTE"

DQ == "\""

NL == "\n"

SP == " "

\* str.strip() removes these (the texts drawn below use the first two).
Whitespace == {" ", "\n", "\t", "\r"}

UpperCase == <<"A", "B", "C", "D", "E", "F", "G", "H", "I", "J", "K", "L", "M",
               "N", "O", "P", "Q", "R", "S", "T", "U", "V", "W", "X", "Y", "Z">>

LowerCase == <<"a", "b", "c", "d", "e", "f", "g", "h", "i", "j", "k", "l", "m",
               "n", "o", "p", "q", "r", "s", "t", "u", "v", "w", "x", "y", "z">>

Digits == <<"0", "1", "2", "3", "4", "5", "6", "7", "8", "9">>

SetMin(S) == CHOOSE x \in S : \A y \in S : x <= y

SetMax(S) == CHOOSE x \in S : \A y \in S : x >= y

\* str.strip()
strip(s) ==
    LET keep == {i \in 1..Len(s) : s[i] \notin Whitespace}
    IN  IF keep = {} THEN <<>> ELSE SubSeq(s, SetMin(keep), SetMax(keep))

\* str.lower() on ASCII text
lower(s) ==
    [i \in 1..Len(s) |->
        IF \E k \in 1..26 : UpperCase[k] = s[i]
        THEN LowerCase[CHOOSE k \in 1..26 : UpperCase[k] = s[i]]
        ELSE s[i]]

\* str.startswith(prefix)
startswith(s, prefix) ==
    Len(s) >= Len(prefix) /\ SubSeq(s, 1, Len(prefix)) = prefix

\* The slice s[start:-3]: the characters from offset start (0-based) up to,
\* not including, the third from the end; empty when nothing lies between.
slice_to_minus3(s, start) ==
    IF start + 1 > Len(s) - 3 THEN <<>> ELSE SubSeq(s, start + 1, Len(s) - 3)

\* str.replace(old, ''): every occurrence of old removed, left to right.
RECURSIVE remove_all(_, _)
remove_all(s, old) ==
    IF Len(s) < Len(old)
    THEN s
    ELSE IF SubSeq(s, 1, Len(old)) = old
         THEN remove_all(SubSeq(s, Len(old) + 1, Len(s)), old)
         ELSE <<s[1]>> \o remove_all(Tail(s), old)

\* ch in s
contains(s, ch) == \E i \in 1..Len(s) : s[i] = ch

FenceJson == <<BT, BT, BT, "j", "s", "o", "n">>

Fence == <<BT, BT, BT>>

\* ---- the values json.loads produces: kind names the Python type (dict,
\* list, str, int, True, False, None) and the field of that kind holds the
\* value, the other fields staying blank.
JLiteral(name) ==
    [kind |-> name, str |-> <<>>, num |-> 0, items |-> <<>>, members |-> <<>>]

JObject(members) == [JLiteral("dict") EXCEPT !.members = members]

JArray(items) == [JLiteral("list") EXCEPT !.items = items]

JString(chars) == [JLiteral("str") EXCEPT !.str = chars]

JNumber(n) == [JLiteral("int") EXCEPT !.num = n]

ParseFail == [ok |-> FALSE, val |-> JLiteral("None"), pos |-> 0]

ParseOk(v, next) == [ok |-> TRUE, val |-> v, pos |-> next]

\* The first position at or after i that holds no JSON whitespace
\* (Len(s) + 1 when there is none).
SkipWs(s, i) ==
    SetMin({j \in i..(Len(s) + 1) : j = Len(s) + 1 \/ s[j] \notin Whitespace})

\* A string starting at the quote s[i]: up to the next quote; a control
\* character inside it is an error (escapes are not in the texts drawn).
ParseString(s, i) ==
    LET ends == {j \in (i + 1)..Len(s) : s[j] = DQ}
        j    == SetMin(ends)
    IN  IF ends = {} THEN ParseFail
        ELSE IF \E k \in (i + 1)..(j - 1) : s[k] \in {"\n", "\t", "\r", "\\"}
             THEN ParseFail
             ELSE ParseOk(JString(SubSeq(s, i + 1, j - 1)), j + 1)

IsDigit(ch) == \E k \in 1..10 : Digits[k] = ch

DigitValue(ch) == (CHOOSE k \in 1..10 : Digits[k] = ch) - 1

RECURSIVE DigitsValue(_)
DigitsValue(ds) ==
    IF ds = <<>> THEN 0
    ELSE 10 * DigitsValue(SubSeq(ds, 1, Len(ds) - 1)) + DigitValue(ds[Len(ds)])

\* An integer starting at s[i] ("-" or a digit): a leading 0 ends the number.
ParseNumber(s, i) ==
    LET neg   == s[i] = "-"
        d     == IF neg THEN i + 1 ELSE i
        stop  == SetMin({j \in d..(Len(s) + 1) : j = Len(s) + 1 \/ ~IsDigit(s[j])})
        last  == IF stop > d /\ s[d] = "0" THEN d + 1 ELSE stop
        n     == DigitsValue(SubSeq(s, d, last - 1))
    IN  IF stop = d THEN ParseFail
        ELSE ParseOk(JNumber(IF neg THEN 0 - n ELSE n), last)

StartsAt(s, i, w) == i + Len(w) - 1 <= Len(s) /\ SubSeq(s, i, i + Len(w) - 1) = w

RECURSIVE ParseValue(_, _), ParseMembers(_, _, _, _), ParseItems(_, _, _, _)
\* One JSON value starting at or after position i.
ParseValue(s, i) ==
    LET j == SkipWs(s, i)
    IN  IF j > Len(s) THEN ParseFail
        ELSE IF s[j] = "{" THEN ParseMembers(s, j + 1, <<>>, TRUE)
        ELSE IF s[j] = "[" THEN ParseItems(s, j + 1, <<>>, TRUE)
        ELSE IF s[j] = DQ THEN ParseString(s, j)
        ELSE IF s[j] = "-" \/ IsDigit(s[j]) THEN ParseNumber(s, j)
        ELSE IF StartsAt(s, j, <<"t", "r", "u", "e">>) THEN ParseOk(JLiteral("True"), j + 4)
        ELSE IF StartsAt(s, j, <<"f", "a", "l", "s", "e">>) THEN ParseOk(JLiteral("False"), j + 5)
        ELSE IF StartsAt(s, j, <<"n", "u", "l", "l">>) THEN ParseOk(JLiteral("None"), j + 4)
        ELSE ParseFail

\* The members of an object after "{" (first) or after ","; acc holds the
\* members read so far.
ParseMembers(s, i, acc, first) ==
    LET j == SkipWs(s, i)
    IN  IF j > Len(s) THEN ParseFail
        ELSE IF s[j] = "}" /\ first THEN ParseOk(JObject(acc), j + 1)
        ELSE IF s[j] # DQ THEN ParseFail
        ELSE
          LET key == ParseString(s, j)
              c   == SkipWs(s, key.pos)
              v   == ParseValue(s, c + 1)
              e   == SkipWs(s, v.pos)
              all == Append(acc, [k |-> key.val.str, v |-> v.val])
          IN  IF ~key.ok THEN ParseFail
              ELSE IF c > Len(s) THEN ParseFail
              ELSE IF s[c] # ":" THEN ParseFail
              ELSE IF ~v.ok THEN ParseFail
              ELSE IF e > Len(s) THEN ParseFail
              ELSE IF s[e] = "," THEN ParseMembers(s, e + 1, all, FALSE)
              ELSE IF s[e] = "}" THEN ParseOk(JObject(all), e + 1)
              ELSE ParseFail

\* The items of an array after "[" (first) or after ",".
ParseItems(s, i, acc, first) ==
    LET j == SkipWs(s, i)
    IN  IF j > Len(s) THEN ParseFail
        ELSE IF s[j] = "]" /\ first THEN ParseOk(JArray(acc), j + 1)
        ELSE
          LET v   == ParseValue(s, j)
              e   == SkipWs(s, v.pos)
              all == Append(acc, v.val)
          IN  IF ~v.ok THEN ParseFail
              ELSE IF e > Len(s) THEN ParseFail
              ELSE IF s[e] = "," THEN ParseItems(s, e + 1, all, FALSE)
              ELSE IF s[e] = "]" THEN ParseOk(JArray(all), e + 1)
              ELSE ParseFail

\* json.loads(s): the value, or JSONDecodeError (ok = FALSE) when s is not one
\* JSON document surrounded by optional whitespace.
json_loads(s) ==
    LET r == ParseValue(s, 1)
    IN  IF r.ok /\ SkipWs(s, r.pos) > Len(s)
        THEN [ok |-> TRUE, val |-> r.val]
        ELSE [ok |-> FALSE, val |-> JLiteral("None")]

\* key in d, for a dict d
has_key(d, key) == \E i \in 1..Len(d.members) : d.members[i].k = key

\* dict.get(key, default): json.loads keeps the last of repeated keys.
dict_get(d, key, default) ==
    IF has_key(d, key)
    THEN d.members[SetMax({i \in 1..Len(d.members) : d.members[i].k = key})].v
    ELSE default

\* ------------------------------------------------ words of the source text
\* The keys of the dicts the code reads and builds, and of the quiz it asks for.
Key ==
    [error |->
        <<"e", "r", "r", "o", "r">>,
     raw_response |->
        <<"r", "a", "w", "_", "r", "e", "s", "p", "o", "n", "s", "e">>,
     is_correct |->
        <<"i", "s", "_", "c", "o", "r", "r", "e", "c", "t">>,
     level_of_correctness |->
        <<"l", "e", "v", "e", "l", "_", "o", "f", "_", "c", "o", "r", "r",
          "e", "c", "t", "n", "e", "s", "s">>,
     feedback |->
        <<"f", "e", "e", "d", "b", "a", "c", "k">>,
     grade |->
        <<"g", "r", "a", "d", "e">>,
     questions |->
        <<"q", "u", "e", "s", "t", "i", "o", "n", "s">>,
     id |->
        <<"i", "d">>,
     question |->
        <<"q", "u", "e", "s", "t", "i", "o", "n">>,
     options |->
        <<"o", "p", "t", "i", "o", "n", "s">>,
     correct_answer |->
        <<"c", "o", "r", "r", "e", "c", "t", "_", "a", "n", "s", "w", "e",
          "r">>,
     explanation |->
        <<"e", "x", "p", "l", "a", "n", "a", "t", "i", "o", "n">>]

\* Words the code compares with or removes.
Word ==
    [correct |->
        <<"c", "o", "r", "r", "e", "c", "t">>,
     Unknown |->
        <<"U", "n", "k", "n", "o", "w", "n">>,
     json |->
        <<"j", "s", "o", "n">>,
     incorrect |->
        <<"i", "n", "c", "o", "r", "r", "e", "c", "t">>]

sWav == <<".", "w", "a", "v">>

\* ------------------------------------------- Python values and outcomes
PyBool(b) == JLiteral(IF b THEN "True" ELSE "False")

\* A text whose characters do not matter (a message, str(e)), kept as one unit.
Msg(name) == JString(<<name>>)

\* One key: value entry of a dict literal.
Item(key, value) == [k |-> key, v |-> value]

\* How a call ends: it returns a value, or raises the named exception.
Return(v) == [raised |-> "none", result |-> v]

Raise(exc) == [raised |-> exc, result |-> JLiteral("None")]

\* ---------------------------------------------- the shared fence stripping
FenceJsonLen == 7

FenceLen == 3

\* text.strip(), then [7:-3] after a leading fence tagged json, [3:-3] after a
\* bare leading fence.
strip_fence(text) ==
    LET t == strip(text)
    IN  IF startswith(t, FenceJson) THEN slice_to_minus3(t, FenceJsonLen)
        ELSE IF startswith(t, Fence) THEN slice_to_minus3(t, FenceLen)
        ELSE t

\* ------------------------------------------------------------ generate_quiz
ContextThreshold == 100

TopK == 3

PromptBudget == 3000

QuizMaxTokens == 2000

\* The context built from the content: the text body followed by "\n\n" when
\* the text is not empty, then "title: content\n" for each slide. A segment
\* holds the part it comes from and its length in characters; a length stands
\* for a text of that many characters.
build_context(text_len, slides) ==
    (IF text_len > 0 THEN <<[part |-> "text", len |-> text_len + 2]>> ELSE <<>>)
    \o [i \in 1..Len(slides) |->
           [part |-> "slide", len |-> slides[i].title + 2 + slides[i].content + 1]]

RECURSIVE context_len(_)
\* len(context_text)
context_len(ctx) ==
    IF ctx = <<>> THEN 0 ELSE ctx[1].len + context_len(Tail(ctx))

\* The test of the length with <= in place of <.
needs_retrieval_AtMost(ctx) == context_len(ctx) <= ContextThreshold

needs_retrieval(ctx) == context_len(ctx) < ContextThreshold

\* The arguments of self.rag.retrieve
retrieve_call(content_id) == [top_k |-> TopK, filter_content_id |-> content_id]

\* doc['text'] + "\n" appended for each retrieved passage, in order.
append_passages(ctx, docs) ==
    ctx \o [i \in 1..Len(docs) |-> [part |-> "passage", len |-> docs[i] + 1]]

\* The arguments of self.rag.llm.generate: the prompt embeds context_text[:3000].
quiz_generate_call(ctx) ==
    [temperature |-> Frac(3, 10), max_tokens |-> QuizMaxTokens,
     context_chars |-> IF context_len(ctx) < PromptBudget
                       THEN context_len(ctx) ELSE PromptBudget]

\* The inner try of generate_quiz on the provider's response: response['text']
\* raises KeyError when the field is missing; a JSONDecodeError is turned into
\* an error dict holding the raw text.
quiz_parse(response) ==
    IF ~response.has_text
    THEN Raise("KeyError")
    ELSE LET r == json_loads(strip_fence(response.text))
         IN  IF r.ok
             THEN Return(r.val)
             ELSE Return(JObject(<<Item(Key.error, Msg("Failed to generate valid quiz format")),
                                   Item(Key.raw_response, JString(response.text))>>))

\* The outer handlers of generate_quiz with only Content.DoesNotExist caught.
quiz_except_OnlyDoesNotExist(exc) ==
    IF exc = "DoesNotExist"
    THEN Return(JObject(<<Item(Key.error, Msg("Content not found"))>>))
    ELSE Raise(exc)

\* The outer handlers of generate_quiz: Content.DoesNotExist, then Exception.
quiz_except(exc) ==
    IF exc = "DoesNotExist"
    THEN Return(JObject(<<Item(Key.error, Msg("Content not found"))>>))
    ELSE Return(JObject(<<Item(Key.error, Msg(exc))>>))

\* ------------------------------------------------- evaluate_answer, standard
StandardMaxTokens == 500

\* GeminiProvider(): raises ValueError when no API key is configured.
construct_gemini(has_credential) ==
    IF has_credential THEN Return(JLiteral("None")) ELSE Raise("ValueError")

\* llm = GeminiProvider() if provider == 'gemini' else self.rag.llm
select_provider(provider, has_credential) ==
    IF provider = "gemini"
    THEN construct_gemini(has_credential)
    ELSE Return(JLiteral("None"))

\* The arguments of llm.generate in standard mode.
standard_generate_call ==
    [temperature |-> Frac(7, 10), max_tokens |-> StandardMaxTokens]

\* The comparison of the answers with strip() alone.
answers_match_CaseSensitive(user_answer, correct_answer) ==
    strip(user_answer) = strip(correct_answer)

\* user_answer.strip().lower() == correct_answer.strip().lower()
answers_match(user_answer, correct_answer) ==
    lower(strip(user_answer)) = lower(strip(correct_answer))

\* The dict evaluate_answer returns; response['text'] raises KeyError when
\* the provider's result has no text field.
standard_result(user_answer, correct_answer, response) ==
    IF ~response.has_text
    THEN Raise("KeyError")
    ELSE Return(JObject(<<Item(Key.is_correct,
                               PyBool(answers_match(user_answer, correct_answer))),
                          Item(Key.feedback, JString(response.text))>>))

\* ---------------------------------------------- _evaluate_descriptive_answer
\* is_correct true for every level but "incorrect".
level_is_correct_NotIncorrect(level) == lower(level) # Word.incorrect

\* data.get("level_of_correctness", "").lower() == "correct"
level_is_correct(level) == lower(level) = Word.correct

\* The result of the bare except: the text could not be parsed.
descriptive_unparsed(text) ==
    JObject(<<Item(Key.is_correct, PyBool(FALSE)),
              Item(Key.level_of_correctness, JString(Word.Unknown)),
              Item(Key.feedback, JString(text)),
              Item(Key.error, Msg("Could not parse JSON response"))>>)

\* The text handed to json.loads: the fence-stripped text when it holds a "{",
\* else the raw text with "json", the fence and the newlines removed.
descriptive_clean(text) ==
    LET clean_text == strip_fence(text)
    IN  IF ~contains(clean_text, "{")
        THEN remove_all(remove_all(remove_all(text, Word.json), Fence), <<NL>>)
        ELSE clean_text

\* The inner try of _evaluate_descriptive_answer: json.loads raising, .get on
\* a value that is no dict and .lower() on a level that is no str all end in
\* the bare except.
descriptive_parse(text) ==
    LET r     == json_loads(descriptive_clean(text))
        level == dict_get(r.val, Key.level_of_correctness, JString(<<>>))
    IN  IF ~r.ok \/ r.val.kind # "dict"
        THEN descriptive_unparsed(text)
        ELSE IF level.kind # "str"
             THEN descriptive_unparsed(text)
             ELSE JObject(<<Item(Key.is_correct, PyBool(level_is_correct(level.str))),
                            Item(Key.level_of_correctness, level),
                            Item(Key.feedback, dict_get(r.val, Key.feedback, JString(<<>>)))>>)

\* The outer except of _evaluate_descriptive_answer.
descriptive_except(exc) ==
    JObject(<<Item(Key.is_correct, PyBool(FALSE)),
              Item(Key.feedback, Msg(exc))>>)

\* ------------------------------------ submit_speaking, evaluate_speaking_audio
HTTP_200_OK == 200

HTTP_400_BAD_REQUEST == 400

HTTP_500_INTERNAL_SERVER_ERROR == 500

HTTP_503_SERVICE_UNAVAILABLE == 503

SpeakingMaxTokens == 500

AllowedSuffixes ==
    {sWav, <<".", "m", "p", "3">>, <<".", "o", "g", "g">>, <<".", "m", "4", "a">>,
     <<".", "w", "e", "b", "m">>}

\* The suffix of the temp file: the extension of the upload, ".wav" when it
\* has none or when its lower-case form is not allowed.
safe_suffix(ext) ==
    LET suffix == IF ext = <<>> THEN sWav ELSE ext
    IN  IF lower(suffix) \notin AllowedSuffixes THEN sWav ELSE suffix

\* The arguments of model.generate_content.
speaking_generate_call ==
    [temperature |-> Frac(2, 10), max_tokens |-> SpeakingMaxTokens]

\* text_response with the json-tagged fence, then the fence, replaced by
\* nothing, then strip()
speaking_clean(text) == strip(remove_all(remove_all(text, FenceJson), Fence))

\* The inner try of evaluate_speaking_audio: the grade and the feedback of the
\* parsed response; grade 0 and the raw text when json.loads fails; .get on a
\* value that is no dict raises AttributeError.
speaking_parse(text) ==
    LET r == json_loads(speaking_clean(text))
    IN  IF ~r.ok
        THEN Return(JObject(<<Item(Key.grade, JNumber(0)),
                              Item(Key.feedback, JString(text)),
                              Item(Key.raw_response, JString(text))>>))
        ELSE IF r.val.kind # "dict"
             THEN Raise("AttributeError")
             ELSE Return(JObject(<<Item(Key.grade, dict_get(r.val, Key.grade, JNumber(0))),
                                   Item(Key.feedback, dict_get(r.val, Key.feedback,
                                                            Msg("No feedback provided."))),
                                   Item(Key.raw_response, JString(text))>>))

\* The outer except of evaluate_speaking_audio.
speaking_fault(exc) ==
    JObject(<<Item(Key.error, Msg(exc)),
              Item(Key.grade, JNumber(0)),
              Item(Key.feedback, Msg("Error evaluating audio"))>>)

\* The handlers of submit_speaking with every exception answered alike.
speaking_view_except_All500(exc) ==
    [status |-> HTTP_500_INTERNAL_SERVER_ERROR,
     body |-> JObject(<<Item(Key.error, Msg(exc))>>)]

\* The handlers of submit_speaking: ValueError from the inner try is answered
\* 503, every other exception 500.
speaking_view_except(exc) ==
    IF exc = "ValueError"
    THEN [status |-> HTTP_503_SERVICE_UNAVAILABLE,
          body |-> JObject(<<Item(Key.error, Msg("Gemini API not configured"))>>)]
    ELSE [status |-> HTTP_500_INTERNAL_SERVER_ERROR,
          body |-> JObject(<<Item(Key.error, Msg(exc))>>)]

\* Where control goes when the try block is left, with the cleanup written
\* after the try block instead of in a finally clause.
exit_pc_NoFinally(how) == IF how = "return" THEN "finally" ELSE "returned"

\* Where control goes when the try block of submit_speaking is left, by a
\* return or by a handled exception: to the finally clause.
exit_pc(how) == "finally"

\* The finally clause: os.unlink when os.path.exists.
unlink_if_exists(temp_file) ==
    IF temp_file = "exists" THEN "deleted" ELSE temp_file

\* The store after update_progress(u, c) with the request's data at time t.
update_progress(s, u, c, pct, minutes, score, t) ==
    LET m   == ContentModule[c]
        p   == ModulePath[m]
        goc == get_or_create(s, u, p, m, c,
                   [NewProgress(u, p, m, c) EXCEPT !.status = "in_progress"])
        s1  == [goc.s EXCEPT ![goc.pk] = ApplyUpdate(@, pct, minutes, score, t)]
    IN  Rollups(s1, u, c, t)

VARIABLES
    store,              \* the user_progress table
    enrollments,        \* the user_enrollments table: <<user, path>> -> is_active
    total_enrollments,  \* LearningPath.total_enrollments
    now,                \* the clock read by timezone.now()
    last_request,       \* the request served last (history)
    time_total,         \* <<user, content>> -> sum of the time deltas sent (history)
    reqs,               \* the requests in flight: worker -> its position and locals
    job                 \* the assessment call in progress: its position and locals

vars ==
    <<store, enrollments, total_enrollments, now, last_request, time_total, reqs, job>>

\* The request-serving pool.
Workers == 1..NumWorkers

\* A worker that has not received its request yet.
Idle ==
    [pc |-> "idle", op |-> "none", user |-> NULL, content |-> NULL, path |-> NULL,
     pct |-> 0, minutes |-> 0, score |-> None, t |-> 0,
     pk |-> 0, created |-> FALSE, obj |-> NewProgress(NULL, NULL, NULL, NULL),
     cnt |-> 0]

NoRequest == [op |-> "none"]

\* No assessment call in progress; the fields a call does not use keep
\* these values.
NoJob ==
    [fn |-> "none", pc |-> "idle",
     content_id |-> NULL, exists |-> FALSE, text_len |-> 0, slides |-> <<>>,
     context |-> <<>>, retrieve_calls |-> <<>>, generate_calls |-> <<>>,
     provider |-> "ollama", has_credential |-> FALSE,
     response |-> [has_text |-> FALSE, text |-> <<>>, finish_reason |-> "none",
                   has_error |-> FALSE],
     doc |-> <<>>, form |-> "none",
     user_answer |-> <<>>, correct_answer |-> <<>>, context_arg |-> "",
     ext |-> <<>>, suffix |-> <<>>, temp_file |-> "none",
     fault |-> "none", raised |-> "none", status |-> 0,
     result |-> JLiteral("None")]

Init ==
    /\ store = <<>>
    /\ enrollments = [k \in {} |-> TRUE]
    /\ total_enrollments = [p \in Paths |-> 0]
    /\ now = 0
    /\ last_request = NoRequest
    /\ time_total = [k \in Accounts \X Contents |-> 0]
    /\ reqs = [w \in Workers |-> Idle]
    /\ job = NoJob

\* ------------------------------------------- requests served one at a time
MarkComplete(u, c) ==
    /\ now < MaxClock
    /\ now' = now + 1
    /\ store' = mark_complete(store, u, c, now')
    /\ last_request' = [op |-> "mark_complete", user |-> u, content |-> c]
    /\ UNCHANGED <<job, enrollments, total_enrollments, time_total, reqs>>

UpdateProgress(u, c, pct, minutes, score) ==
    /\ now < MaxClock
    /\ now' = now + 1
    /\ store' = update_progress(store, u, c, pct, minutes, score, now')
    /\ last_request' = [op |-> "update_progress", user |-> u, content |-> c,
                        pct |-> pct, minutes |-> minutes, score |-> score]
    /\ time_total' = [time_total EXCEPT ![<<u, c>>] = @ + minutes]
    /\ UNCHANGED <<job, enrollments, total_enrollments, reqs>>

Enroll(u, p) ==
    /\ now < MaxClock
    /\ now' = now + 1
    /\ enrollments' = (<<u, p>> :> TRUE) @@ enrollments
    /\ store' = get_or_create(store, u, p, NULL, NULL,
                    [NewProgress(u, p, NULL, NULL) EXCEPT !.status = "in_progress"]).s
    /\ total_enrollments' = [total_enrollments EXCEPT ![p] = @ + 1]
    /\ last_request' = [op |-> "enroll", user |-> u, path |-> p]
    /\ UNCHANGED <<job, time_total, reqs>>

Unenroll(u, p) ==
    /\ now < MaxClock
    /\ now' = now + 1
    /\ enrollments' = IF <<u, p>> \in DOMAIN enrollments
                      THEN [enrollments EXCEPT ![<<u, p>>] = FALSE]
                      ELSE enrollments
    /\ last_request' = [op |-> "unenroll", user |-> u, path |-> p]
    /\ UNCHANGED <<job, store, total_enrollments, time_total, reqs>>

Next ==
    \/ \E u \in Users, c \in Contents : MarkComplete(u, c)
    \/ \E u \in Users, c \in Contents, pct \in Percentages,
          minutes \in TimeDeltas, score \in Scores :
            UpdateProgress(u, c, pct, minutes, score)
    \/ \E u \in Users, p \in Paths : Enroll(u, p)
    \/ \E u \in Users, p \in Paths : Unenroll(u, p)

Spec == Init /\ [][Next]_vars

\* ------------------------------------------------- the rollups on their own
\* How _update_module_progress(u, m) ends on table s: it returns at once when
\* the module has no content item, and its get_or_create raises when two rows
\* hold the key.
module_rollup_outcome(s, u, m) ==
    IF Cardinality(module_contents(m)) = 0
    THEN "returned"
    ELSE IF Cardinality(Matching(s, u, ModulePath[m], m, NULL)) > 1
         THEN "MultipleObjectsReturned"
         ELSE "saved"

\* How _update_learning_path_progress(u, p) ends on table s.
path_rollup_outcome(s, u, p) ==
    IF Cardinality(path_modules(p)) = 0
    THEN "returned"
    ELSE IF Cardinality(Matching(s, u, p, NULL, NULL)) > 1
         THEN "MultipleObjectsReturned"
         ELSE "saved"

\* _update_module_progress called for any module, one without content included.
RollupModule(u, m) ==
    /\ now < MaxClock
    /\ now' = now + 1
    /\ store' = _update_module_progress(store, u, m, now')
    /\ last_request' = [op |-> "rollup_module", user |-> u, module |-> m,
                        outcome |-> module_rollup_outcome(store, u, m)]
    /\ UNCHANGED <<job, enrollments, total_enrollments, time_total, reqs>>

\* _update_learning_path_progress called for any path, one without modules
\* included.
RollupPath(u, p) ==
    /\ now < MaxClock
    /\ now' = now + 1
    /\ store' = _update_learning_path_progress(store, u, p, now')
    /\ last_request' = [op |-> "rollup_path", user |-> u, path |-> p,
                        outcome |-> path_rollup_outcome(store, u, p)]
    /\ UNCHANGED <<job, enrollments, total_enrollments, time_total, reqs>>

NextRollup ==
    \/ Next
    \/ \E u \in Users, m \in Modules : RollupModule(u, m)
    \/ \E u \in Users, p \in Paths : RollupPath(u, p)

SpecRollup == Init /\ [][NextRollup]_vars

\* ------------------------------------------- the requests of two accounts
\* mark_complete, update_progress and the rollups, called for either account
\* one after the other, with the request data of ConcPercentages and
\* ConcTimeDeltas and no score.
NextFrame ==
    \/ \E u \in Accounts, c \in Contents : MarkComplete(u, c)
    \/ \E u \in Accounts, c \in Contents, pct \in ConcPercentages,
          minutes \in ConcTimeDeltas :
            UpdateProgress(u, c, pct, minutes, None)
    \/ \E u \in Accounts, m \in Modules : RollupModule(u, m)
    \/ \E u \in Accounts, p \in Paths : RollupPath(u, p)

SpecFrame == Init /\ [][NextFrame]_vars

\* ------------------------------------------ requests served concurrently
\* Each action below is one database statement of a handler, run by worker w;
\* between two statements of one request any statement of another may run.
\* A request reads the clock when it arrives.
Accept(w, op, u, c, p, pc, pct, minutes, score) ==
    /\ reqs[w].pc = "idle"
    /\ \A v \in Workers : v < w => reqs[v].pc # "idle"
    /\ now < MaxClock
    /\ now' = now + 1
    /\ reqs' = [reqs EXCEPT ![w] = [@ EXCEPT !.pc = pc, !.op = op, !.user = u,
                                              !.content = c, !.path = p, !.t = now',
                                              !.pct = pct, !.minutes = minutes,
                                              !.score = score]]

StartMarkComplete(w, u, c) ==
    /\ Accept(w, "mark_complete", u, c, ModulePath[ContentModule[c]], "content_get",
              0, 0, None)
    /\ UNCHANGED <<job, store, enrollments, total_enrollments, last_request, time_total>>

StartUpdateProgress(w, u, c, pct, minutes, score) ==
    /\ Accept(w, "update_progress", u, c, ModulePath[ContentModule[c]], "content_get",
              pct, minutes, score)
    /\ time_total' = [time_total EXCEPT ![<<u, c>>] = @ + minutes]
    /\ UNCHANGED <<job, store, enrollments, total_enrollments, last_request>>

\* enroll: get_object() loads the learning path, total_enrollments included.
StartEnroll(w, u, p) ==
    /\ Accept(w, "enroll", u, NULL, p, "enrollment", 0, 0, None)
    /\ UNCHANGED <<job, store, enrollments, total_enrollments, last_request, time_total>>

\* The defaults a handler passes to get_or_create for the content-level row.
ContentDefaults(r) ==
    LET fresh == NewProgress(r.user, r.path, ContentModule[r.content], r.content)
    IN  IF r.op = "mark_complete"
        THEN CompleteRow(fresh, r.t)
        ELSE [fresh EXCEPT !.status = "in_progress"]

\* get_or_create, first statement: SELECT the row with the key.
ContentGet(w) ==
    LET r     == reqs[w]
        found == Matching(store, r.user, r.path, ContentModule[r.content], r.content)
    IN  /\ r.pc = "content_get"
        /\ reqs' = [reqs EXCEPT ![w] =
                      IF found = {}
                      THEN [r EXCEPT !.pc = "content_insert"]
                      ELSE IF Cardinality(found) = 1
                           THEN LET pk == CHOOSE i \in found : TRUE
                                IN  [r EXCEPT !.pc = "content_save", !.pk = pk,
                                              !.obj = store[pk], !.created = FALSE]
                           ELSE [r EXCEPT !.pc = "failed"]]
        /\ UNCHANGED <<job, store, enrollments, total_enrollments, now, last_request,
                       time_total>>

\* get_or_create, second statement: INSERT.  All four key columns are set, so
\* unique_together rejects a second row (IntegrityError) and get_or_create
\* fetches the row that is there.
ContentInsert(w) ==
    LET r     == reqs[w]
        found == Matching(store, r.user, r.path, ContentModule[r.content], r.content)
    IN  /\ r.pc = "content_insert"
        /\ IF found = {}
           THEN /\ store' = Append(store, ContentDefaults(r))
                /\ reqs' = [reqs EXCEPT ![w] =
                              [r EXCEPT !.pc = "content_save", !.pk = Len(store) + 1,
                                        !.obj = ContentDefaults(r), !.created = TRUE]]
           ELSE /\ store' = store
                /\ reqs' = [reqs EXCEPT ![w] =
                              LET pk == CHOOSE i \in found : TRUE
                              IN  [r EXCEPT !.pc = "content_save", !.pk = pk,
                                            !.obj = store[pk], !.created = FALSE]]
        /\ UNCHANGED <<job, enrollments, total_enrollments, now, last_request, time_total>>

\* The handler's assignments to the object it fetched, and save(): an UPDATE
\* of every column of the row from the in-memory object.
ContentSave(w) ==
    LET r   == reqs[w]
        obj == IF r.op = "mark_complete"
               THEN IF ~r.created /\ r.obj.status # "completed"
                    THEN CompleteRow(r.obj, r.t)
                    ELSE r.obj
               ELSE ApplyUpdate(r.obj, r.pct, r.minutes, r.score, r.t)
        saves == r.op = "update_progress" \/ obj # r.obj
    IN  /\ r.pc = "content_save"
        /\ store' = IF saves THEN [store EXCEPT ![r.pk] = obj] ELSE store
        /\ reqs' = [reqs EXCEPT ![w] = [r EXCEPT !.pc = "module_count", !.obj = obj]]
        /\ UNCHANGED <<job, enrollments, total_enrollments, now, last_request, time_total>>

\* _update_module_progress: the two COUNT queries.
ModuleCount(w) ==
    LET r == reqs[w]
        m == ContentModule[r.content]
    IN  /\ r.pc = "module_count"
        /\ reqs' = [reqs EXCEPT ![w] =
                      IF Cardinality(module_contents(m)) = 0
                      THEN [r EXCEPT !.pc = "path_count"]
                      ELSE [r EXCEPT !.pc = "module_get",
                                     !.cnt = completed_contents(store, r.user, m)]]
        /\ UNCHANGED <<job, store, enrollments, total_enrollments, now, last_request,
                       time_total>>

\* get_or_create of the module-level row, SELECT: get() raises
\* MultipleObjectsReturned when two rows match.
ModuleGet(w) ==
    LET r     == reqs[w]
        found == Matching(store, r.user, r.path, ContentModule[r.content], NULL)
    IN  /\ r.pc = "module_get"
        /\ reqs' = [reqs EXCEPT ![w] =
                      IF found = {}
                      THEN [r EXCEPT !.pc = "module_insert"]
                      ELSE IF Cardinality(found) = 1
                           THEN LET pk == CHOOSE i \in found : TRUE
                                IN  [r EXCEPT !.pc = "module_save", !.pk = pk,
                                              !.obj = store[pk], !.created = FALSE]
                           ELSE [r EXCEPT !.pc = "failed"]]
        /\ UNCHANGED <<job, store, enrollments, total_enrollments, now, last_request,
                       time_total>>

\* get_or_create of the module-level row, INSERT: content is NULL, and a
\* UNIQUE constraint never rejects a row with a NULL in a constrained column.
ModuleInsert(w) ==
    LET r     == reqs[w]
        fresh == NewProgress(r.user, r.path, ContentModule[r.content], NULL)
    IN  /\ r.pc = "module_insert"
        /\ store' = Append(store, fresh)
        /\ reqs' = [reqs EXCEPT ![w] =
                      [r EXCEPT !.pc = "module_save", !.pk = Len(store) + 1,
                                !.obj = fresh, !.created = TRUE]]
        /\ UNCHANGED <<job, enrollments, total_enrollments, now, last_request, time_total>>

ModuleSave(w) ==
    LET r   == reqs[w]
        pct == Percent(r.cnt, Cardinality(module_contents(ContentModule[r.content])))
        obj == ApplyRollup(r.obj, pct, r.t)
    IN  /\ r.pc = "module_save"
        /\ store' = [store EXCEPT ![r.pk] = obj]
        /\ reqs' = [reqs EXCEPT ![w] = [r EXCEPT !.pc = "path_count", !.obj = obj]]
        /\ UNCHANGED <<job, enrollments, total_enrollments, now, last_request, time_total>>

\* _update_learning_path_progress: the two COUNT queries.
PathCount(w) ==
    LET r == reqs[w]
    IN  /\ r.pc = "path_count"
        /\ reqs' = [reqs EXCEPT ![w] =
                      IF Cardinality(path_modules(r.path)) = 0
                      THEN [r EXCEPT !.pc = "done"]
                      ELSE [r EXCEPT !.pc = "path_get",
                                     !.cnt = completed_modules(store, r.user, r.path)]]
        /\ UNCHANGED <<job, store, enrollments, total_enrollments, now, last_request,
                       time_total>>

\* get_or_create of the path-level row, SELECT (the rollup's and enroll's).
PathGet(w) ==
    LET r     == reqs[w]
        found == Matching(store, r.user, r.path, NULL, NULL)
        next  == IF r.op = "enroll" THEN "enroll_save" ELSE "path_save"
    IN  /\ r.pc = "path_get"
        /\ reqs' = [reqs EXCEPT ![w] =
                      IF found = {}
                      THEN [r EXCEPT !.pc = "path_insert"]
                      ELSE IF Cardinality(found) = 1
                           THEN LET pk == CHOOSE i \in found : TRUE
                                IN  [r EXCEPT !.pc = next, !.pk = pk,
                                              !.obj = store[pk], !.created = FALSE]
                           ELSE [r EXCEPT !.pc = "failed"]]
        /\ UNCHANGED <<job, store, enrollments, total_enrollments, now, last_request,
                       time_total>>

\* get_or_create of the path-level row, INSERT: module and content are NULL.
PathInsert(w) ==
    LET r     == reqs[w]
        fresh == IF r.op = "enroll"
                 THEN [NewProgress(r.user, r.path, NULL, NULL)
                          EXCEPT !.status = "in_progress"]
                 ELSE NewProgress(r.user, r.path, NULL, NULL)
    IN  /\ r.pc = "path_insert"
        /\ store' = Append(store, fresh)
        /\ reqs' = [reqs EXCEPT ![w] =
                      [r EXCEPT !.pc = IF r.op = "enroll" THEN "enroll_save"
                                       ELSE "path_save",
                                !.pk = Len(store) + 1, !.obj = fresh,
                                !.created = TRUE]]
        /\ UNCHANGED <<job, enrollments, total_enrollments, now, last_request, time_total>>

PathSave(w) ==
    LET r   == reqs[w]
        pct == Percent(r.cnt, Cardinality(path_modules(r.path)))
        obj == ApplyRollup(r.obj, pct, r.t)
    IN  /\ r.pc = "path_save"
        /\ store' = [store EXCEPT ![r.pk] = obj]
        /\ reqs' = [reqs EXCEPT ![w] = [r EXCEPT !.pc = "done", !.obj = obj]]
        /\ UNCHANGED <<job, enrollments, total_enrollments, now, last_request, time_total>>

\* enroll: get_or_create of the enrollment (its key has no NULL column, so it
\* is unique) and the reactivation of an inactive one.
EnrollmentGetOrCreate(w) ==
    LET r == reqs[w]
    IN  /\ r.pc = "enrollment"
        /\ enrollments' = (<<r.user, r.path>> :> TRUE) @@ enrollments
        /\ reqs' = [reqs EXCEPT ![w] =
                      [r EXCEPT !.pc = "path_get", !.cnt = total_enrollments[r.path]]]
        /\ UNCHANGED <<job, store, total_enrollments, now, last_request, time_total>>

\* enroll: learning_path.total_enrollments += 1; learning_path.save()
EnrollSave(w) ==
    LET r == reqs[w]
    IN  /\ r.pc = "enroll_save"
        /\ total_enrollments' = [total_enrollments EXCEPT ![r.path] = r.cnt + 1]
        /\ reqs' = [reqs EXCEPT ![w] = [r EXCEPT !.pc = "done"]]
        /\ UNCHANGED <<job, store, enrollments, now, last_request, time_total>>

NextConc ==
    \/ \E w \in Workers, u \in Users, c \in Contents : StartMarkComplete(w, u, c)
    \/ \E w \in Workers, u \in Users, c \in Contents, pct \in ConcPercentages,
          minutes \in ConcTimeDeltas, score \in Scores :
            StartUpdateProgress(w, u, c, pct, minutes, score)
    \/ \E w \in Workers, u \in Users, p \in Paths : StartEnroll(w, u, p)
    \/ \E w \in Workers : ContentGet(w)
    \/ \E w \in Workers : ContentInsert(w)
    \/ \E w \in Workers : ContentSave(w)
    \/ \E w \in Workers : ModuleCount(w)
    \/ \E w \in Workers : ModuleGet(w)
    \/ \E w \in Workers : ModuleInsert(w)
    \/ \E w \in Workers : ModuleSave(w)
    \/ \E w \in Workers : PathCount(w)
    \/ \E w \in Workers : PathGet(w)
    \/ \E w \in Workers : PathInsert(w)
    \/ \E w \in Workers : PathSave(w)
    \/ \E w \in Workers : EnrollmentGetOrCreate(w)
    \/ \E w \in Workers : EnrollSave(w)

SpecConc == Init /\ [][NextConc]_vars

\* ------------------------------------------- the texts a provider may answer
\* Documents a provider may answer: quiz and grading objects, a list, prose.
Doc ==
    [quiz |->
        <<"{", DQ, "q", "u", "e", "s", "t", "i", "o", "n", "s", DQ, ":",
          SP, "[", "]", "}">>,
     empty |->
        <<"{", "}">>,
     prose |->
        <<"S", "o", "r", "r", "y">>,
     list |->
        <<"[", "1", "]">>,
     level_correct |->
        <<"{", DQ, "l", "e", "v", "e", "l", "_", "o", "f", "_", "c", "o",
          "r", "r", "e", "c", "t", "n", "e", "s", "s", DQ, ":", SP, DQ,
          "C", "o", "r", "r", "e", "c", "t", DQ, ",", SP, DQ, "f", "e",
          "e", "d", "b", "a", "c", "k", DQ, ":", SP, DQ, "o", "k", DQ, "}">>,
     level_partial |->
        <<"{", DQ, "l", "e", "v", "e", "l", "_", "o", "f", "_", "c", "o",
          "r", "r", "e", "c", "t", "n", "e", "s", "s", DQ, ":", SP, DQ,
          "p", "a", "r", "t", "i", "a", "l", "l", "y", SP, "c", "o", "r",
          "r", "e", "c", "t", DQ, "}">>,
     level_number |->
        <<"{", DQ, "l", "e", "v", "e", "l", "_", "o", "f", "_", "c", "o",
          "r", "r", "e", "c", "t", "n", "e", "s", "s", DQ, ":", SP, "5",
          "}">>,
     feedback_only |->
        <<"{", DQ, "f", "e", "e", "d", "b", "a", "c", "k", DQ, ":", SP, DQ,
          "o", "k", DQ, "}">>,
     grade_85 |->
        <<"{", DQ, "g", "r", "a", "d", "e", DQ, ":", SP, "8", "5", ",", SP,
          DQ, "f", "e", "e", "d", "b", "a", "c", "k", DQ, ":", SP, DQ, "o",
          "k", DQ, "}">>,
     grade_150 |->
        <<"{", DQ, "g", "r", "a", "d", "e", DQ, ":", SP, "1", "5", "0",
          "}">>,
     grade_negative |->
        <<"{", DQ, "g", "r", "a", "d", "e", DQ, ":", SP, "-", "5", "}">>,
     grade_word |->
        <<"{", DQ, "g", "r", "a", "d", "e", DQ, ":", SP, DQ, "h", "i", "g",
          "h", DQ, "}">>,
     quiz_one |->
        <<"{", DQ, "q", "u", "e", "s", "t", "i", "o", "n", "s", DQ, ":",
          SP, "[", "{", DQ, "i", "d", DQ, ":", SP, "1", ",", SP, DQ, "q",
          "u", "e", "s", "t", "i", "o", "n", DQ, ":", SP, DQ, "q", DQ, ",",
          SP, DQ, "o", "p", "t", "i", "o", "n", "s", DQ, ":", SP, "[", DQ,
          "a", DQ, ",", SP, DQ, "b", DQ, ",", SP, DQ, "c", DQ, ",", SP, DQ,
          "d", DQ, "]", ",", SP, DQ, "c", "o", "r", "r", "e", "c", "t",
          "_", "a", "n", "s", "w", "e", "r", DQ, ":", SP, DQ, "a", DQ, ",",
          SP, DQ, "e", "x", "p", "l", "a", "n", "a", "t", "i", "o", "n",
          DQ, ":", SP, DQ, "e", DQ, "}", "]", "}">>,
     quiz_three_options |->
        <<"{", DQ, "q", "u", "e", "s", "t", "i", "o", "n", "s", DQ, ":",
          SP, "[", "{", DQ, "i", "d", DQ, ":", SP, "1", ",", SP, DQ, "q",
          "u", "e", "s", "t", "i", "o", "n", DQ, ":", SP, DQ, "q", DQ, ",",
          SP, DQ, "o", "p", "t", "i", "o", "n", "s", DQ, ":", SP, "[", DQ,
          "a", DQ, ",", SP, DQ, "b", DQ, ",", SP, DQ, "c", DQ, "]", ",",
          SP, DQ, "c", "o", "r", "r", "e", "c", "t", "_", "a", "n", "s",
          "w", "e", "r", DQ, ":", SP, DQ, "a", DQ, ",", SP, DQ, "e", "x",
          "p", "l", "a", "n", "a", "t", "i", "o", "n", DQ, ":", SP, DQ,
          "e", DQ, "}", "]", "}">>,
     provider_error |->
        <<"E", "r", "r", "o", "r", SP, "g", "e", "n", "e", "r", "a", "t",
          "i", "n", "g", SP, "r", "e", "s", "p", "o", "n", "s", "e", ":",
          SP, "t", "i", "m", "e", "o", "u", "t">>]

\* How a provider wraps a document J: bare, between a fence (tagged json or
\* not) and a closing fence, the same surrounded by whitespace, after an
\* opening fence that is never closed, after the word json, or before a stray
\* fence.
Render(doc, form) ==
    CASE form = "bare"           -> doc
      [] form = "json_fence"     -> FenceJson \o <<NL>> \o doc \o <<NL>> \o Fence
      [] form = "plain_fence"    -> Fence \o <<NL>> \o doc \o <<NL>> \o Fence
      [] form = "json_fence_ws"  -> <<SP, NL>> \o FenceJson \o <<NL>> \o doc
                                        \o <<NL>> \o Fence \o <<NL, SP>>
      [] form = "plain_fence_ws" -> <<NL>> \o Fence \o <<NL>> \o doc
                                        \o <<NL>> \o Fence \o <<SP>>
      [] form = "json_open"      -> FenceJson \o <<NL>> \o doc
      [] form = "plain_open"     -> Fence \o <<NL>> \o doc
      [] form = "json_word"      -> Word.json \o <<SP>> \o doc \o <<SP>>
      [] form = "stray_fence"    -> doc \o <<NL>> \o Fence \o <<NL>>

\* What a call of a collaborator that is not part of this code base may do:
\* raise, return a result without a text field, or return a text.
Raises ==
    [raises |-> TRUE, has_text |-> FALSE, doc |-> <<>>, form |-> "none",
     finish_reason |-> "none"]

NoText ==
    [raises |-> FALSE, has_text |-> FALSE, doc |-> <<>>, form |-> "none",
     finish_reason |-> "none"]

Texts(docs, forms) ==
    {[raises |-> FALSE, has_text |-> TRUE, doc |-> d, form |-> f,
      finish_reason |-> "stop"] : d \in docs, f \in forms}

\* GeminiProvider.generate around the call of the model (sdk): the text with
\* finish_reason "stop"; when the call or response.text raises, the except
\* clause returns a result whose text is the error message, with
\* finish_reason "error" and an error field.
gemini_generate(sdk) ==
    IF sdk.raises \/ ~sdk.has_text
    THEN [raises |-> FALSE, has_text |-> TRUE, doc |-> Doc.provider_error,
          form |-> "bare", finish_reason |-> "error"]
    ELSE [sdk EXCEPT !.finish_reason = "stop"]

\* What llm.generate may do.  The hosted provider always returns a result of
\* GeminiProvider.generate; the pipeline's own llm is either provider, and the
\* local one may also raise or return a result without a text field.
GenerateOutcomes(provider, texts) ==
    LET hosted == {gemini_generate(sdk) : sdk \in texts \cup {Raises, NoText}}
    IN  IF provider = "gemini" THEN hosted ELSE hosted \cup {Raises, NoText}

QuizOutcomes ==
    GenerateOutcomes("ollama",
        Texts({Doc.quiz, Doc.quiz_one, Doc.quiz_three_options, Doc.empty,
               Doc.prose, Doc.list},
              {"bare", "json_fence", "plain_fence", "json_fence_ws",
               "plain_fence_ws", "json_open", "plain_open"}))

DescriptiveTexts ==
    Texts({Doc.level_correct, Doc.level_partial, Doc.level_number, Doc.feedback_only, Doc.list, Doc.prose},
          {"bare", "json_fence", "json_open", "json_word", "stray_fence"})

SpeakingTexts ==
    Texts({Doc.grade_85, Doc.grade_150, Doc.grade_negative, Doc.grade_word, Doc.feedback_only, Doc.list, Doc.prose},
          {"bare", "json_fence"})

\* The feedback texts of standard mode: units whose characters do not matter.
StandardTexts ==
    {[raises |-> FALSE, has_text |-> TRUE, doc |-> <<w>>, form |-> "bare",
      finish_reason |-> "stop"] : w \in {"Well done", "Not quite"}}

\* ----------------------------------------------------- the inputs of a call
\* The ids asked for: c1 is a row of Content, c9 is not.
QuizContentIds == {"c1", "c9"}

\* len(content.text_content): empty, one short of and at the threshold once
\* the two separator characters are added, and well above it.
TextLens == {0, 97, 98, 150}

\* content.slides_content['slides']: lengths of each slide's title and content.
SlideLists ==
    {<<>>,
     <<[title |-> 10, content |-> 20]>>,
     <<[title |-> 10, content |-> 20], [title |-> 30, content |-> 33]>>}

\* What self.rag.retrieve may do: raise, or return passages of these lengths.
RetrieveOutcomes ==
    {[raises |-> TRUE, docs |-> <<>>],
     [raises |-> FALSE, docs |-> <<>>],
     [raises |-> FALSE, docs |-> <<40, 60>>]}

MaxAnswerLen == 2

AnswerChars == {" ", "a", "A"}

\* The answers compared in standard mode: every text of at most MaxAnswerLen
\* characters.
Answers == UNION {[1..n -> AnswerChars] : n \in 0..MaxAnswerLen}

Providers == {"ollama", "gemini"}

\* The extension of the uploaded file's name.
Extensions == {<<>>, sWav, <<".", "M", "P", "3">>, <<".", "x", "y", "z">>}

assess_unchanged ==
    UNCHANGED <<store, enrollments, total_enrollments, now, last_request,
                time_total, reqs>>

\* The call ends here: with a value returned or an exception raised.
Finish(outcome, fault) ==
    job' = [job EXCEPT !.pc = "returned", !.raised = outcome.raised,
                       !.result = outcome.result, !.fault = fault]

\* The response a provider call leaves behind.
Responded(out) ==
    [has_text |-> out.has_text,
     text |-> IF out.has_text THEN Render(out.doc, out.form) ELSE <<>>,
     finish_reason |-> out.finish_reason,
     has_error |-> out.finish_reason = "error"]

\* ------------------------------------------------ generate_quiz, step by step
StartGenerateQuiz(content_id, text_len, slides) ==
    /\ job.pc = "idle"
    /\ content_id \in Contents \/ (text_len = 0 /\ slides = <<>>)
    /\ job' = [NoJob EXCEPT !.fn = "generate_quiz", !.pc = "lookup",
                            !.content_id = content_id,
                            !.exists = content_id \in Contents,
                            !.text_len = text_len, !.slides = slides]
    /\ assess_unchanged

\* Content.objects.get and the assembly of the context from text and slides.
QuizLookup ==
    /\ job.fn = "generate_quiz" /\ job.pc = "lookup"
    /\ IF ~job.exists
       THEN Finish(quiz_except("DoesNotExist"), "not_found")
       ELSE LET ctx == build_context(job.text_len, job.slides)
            IN  job' = [job EXCEPT !.context = ctx,
                                   !.pc = IF needs_retrieval(ctx)
                                          THEN "retrieve" ELSE "generate"]
    /\ assess_unchanged

\* self.rag.retrieve and the appending of the passages.
QuizRetrieve(out) ==
    /\ job.fn = "generate_quiz" /\ job.pc = "retrieve"
    /\ LET called == [job EXCEPT !.retrieve_calls =
                                     Append(@, retrieve_call(job.content_id))]
           o      == quiz_except("RetrievalError")
       IN  job' = IF out.raises
                  THEN [called EXCEPT !.pc = "returned", !.raised = o.raised,
                                      !.result = o.result, !.fault = "retrieval"]
                  ELSE [called EXCEPT !.context = append_passages(@, out.docs),
                                      !.pc = "generate"]
    /\ assess_unchanged

\* self.rag.llm.generate
QuizGenerate(out) ==
    /\ job.fn = "generate_quiz" /\ job.pc = "generate"
    /\ LET called == [job EXCEPT !.generate_calls =
                                     Append(@, quiz_generate_call(job.context))]
           o      == quiz_except("ProviderError")
       IN  job' = IF out.raises
                  THEN [called EXCEPT !.pc = "returned", !.raised = o.raised,
                                      !.result = o.result, !.fault = "provider"]
                  ELSE [called EXCEPT !.response = Responded(out),
                                      !.doc = out.doc, !.form = out.form,
                                      !.pc = "parse"]
    /\ assess_unchanged

\* The parsing of the response and the return.
QuizParse ==
    /\ job.fn = "generate_quiz" /\ job.pc = "parse"
    /\ LET o == quiz_parse(job.response)
       IN  IF o.raised # "none"
           THEN Finish(quiz_except(o.raised), "no_text")
           ELSE Finish(o, "none")
    /\ assess_unchanged

\* ------------------------------------------ evaluate_answer in standard mode
\* The call, with any two answers, either context and either provider.
StartEvaluateStandard ==
    /\ job.pc = "idle"
    /\ \E user_answer \in Answers, correct_answer \in Answers,
          context \in {"", "notes"}, provider \in Providers,
          has_credential \in BOOLEAN :
           job' = [NoJob EXCEPT !.fn = "evaluate_answer", !.pc = "construct",
                                !.user_answer = user_answer,
                                !.correct_answer = correct_answer,
                                !.context_arg = context,
                                !.provider = provider,
                                !.has_credential = has_credential]
    /\ assess_unchanged

\* The choice of the provider: a ValueError of GeminiProvider() is not caught.
StandardConstruct ==
    /\ job.fn = "evaluate_answer" /\ job.pc = "construct"
    /\ LET o == select_provider(job.provider, job.has_credential)
       IN  IF o.raised # "none"
           THEN Finish(o, "missing_credential")
           ELSE job' = [job EXCEPT !.pc = "generate"]
    /\ assess_unchanged

\* llm.generate: what it raises is not caught.
StandardGenerate(out) ==
    /\ job.fn = "evaluate_answer" /\ job.pc = "generate"
    /\ out \in GenerateOutcomes(job.provider, StandardTexts)
    /\ LET called == [job EXCEPT !.generate_calls = Append(@, standard_generate_call)]
       IN  job' = IF out.raises
                  THEN [called EXCEPT !.pc = "returned", !.raised = "ProviderError",
                                      !.fault = "provider"]
                  ELSE [called EXCEPT !.response = Responded(out),
                                      !.doc = out.doc, !.form = out.form,
                                      !.pc = "result"]
    /\ assess_unchanged

StandardReturn ==
    /\ job.fn = "evaluate_answer" /\ job.pc = "result"
    /\ LET o == standard_result(job.user_answer, job.correct_answer, job.response)
       IN  Finish(o, IF o.raised # "none" THEN "no_text" ELSE "none")
    /\ assess_unchanged

\* ---------------------------------------------- _evaluate_descriptive_answer
StartEvaluateDescriptive(provider, has_credential) ==
    /\ job.pc = "idle"
    /\ job' = [NoJob EXCEPT !.fn = "_evaluate_descriptive_answer",
                            !.pc = "construct",
                            !.provider = provider,
                            !.has_credential = has_credential]
    /\ assess_unchanged

\* The choice of the provider, inside the outer try.
DescriptiveConstruct ==
    /\ job.fn = "_evaluate_descriptive_answer" /\ job.pc = "construct"
    /\ LET o == select_provider(job.provider, job.has_credential)
       IN  IF o.raised # "none"
           THEN Finish(Return(descriptive_except(o.raised)), "missing_credential")
           ELSE job' = [job EXCEPT !.pc = "generate"]
    /\ assess_unchanged

\* llm.generate(prompt) and text = response['text'], inside the outer try.
DescriptiveGenerate(out) ==
    /\ job.fn = "_evaluate_descriptive_answer" /\ job.pc = "generate"
    /\ out \in GenerateOutcomes(job.provider, DescriptiveTexts)
    /\ LET called == [job EXCEPT !.generate_calls = Append(@, [prompt |-> "grading"])]
       IN  job' = IF out.raises
                  THEN [called EXCEPT !.pc = "returned",
                                      !.result = descriptive_except("ProviderError"),
                                      !.fault = "provider"]
                  ELSE IF ~out.has_text
                  THEN [called EXCEPT !.pc = "returned",
                                      !.result = descriptive_except("KeyError"),
                                      !.fault = "no_text"]
                  ELSE [called EXCEPT !.response = Responded(out),
                                      !.doc = out.doc, !.form = out.form,
                                      !.pc = "parse"]
    /\ assess_unchanged

\* The inner try with one more provider call when the first response could
\* not be parsed.
DescriptiveParse_Retry ==
    /\ job.fn = "_evaluate_descriptive_answer" /\ job.pc = "parse"
    /\ LET r == descriptive_parse(job.response.text)
       IN  IF has_key(r, Key.error) /\ Len(job.generate_calls) < 2
           THEN job' = [job EXCEPT !.pc = "generate"]
           ELSE Finish(Return(r), "none")
    /\ assess_unchanged

\* The inner try: clean, parse, build the result.
DescriptiveParse ==
    /\ job.fn = "_evaluate_descriptive_answer" /\ job.pc = "parse"
    /\ Finish(Return(descriptive_parse(job.response.text)), "none")
    /\ assess_unchanged

\* ------------------------------ submit_speaking with evaluate_speaking_audio
StartSubmitSpeaking(has_audio, ext, has_credential) ==
    /\ job.pc = "idle"
    /\ has_audio \/ ext = <<>>
    /\ job' = IF ~has_audio
              THEN [NoJob EXCEPT !.fn = "submit_speaking", !.pc = "returned",
                                 !.has_credential = has_credential,
                                 !.fault = "no_audio",
                                 !.status = HTTP_400_BAD_REQUEST,
                                 !.result = JObject(<<Item(Key.error,
                                                Msg("No audio file provided"))>>)]
              ELSE [NoJob EXCEPT !.fn = "submit_speaking", !.pc = "write",
                                 !.has_credential = has_credential,
                                 !.provider = "gemini",
                                 !.ext = ext, !.suffix = safe_suffix(ext),
                                 !.temp_file = "exists"]
    /\ assess_unchanged

\* The response and the next position when the try block is left.
Leave(how, status, body, fault) ==
    job' = [job EXCEPT !.pc = exit_pc(how), !.status = status,
                       !.result = body, !.fault = fault]

\* The copy of the upload's chunks into the temp file.
SpeakingWrite(ok) ==
    /\ job.fn = "submit_speaking" /\ job.pc = "write"
    /\ IF ok
       THEN job' = [job EXCEPT !.pc = "construct"]
       ELSE LET r == speaking_view_except("OSError")
            IN  Leave("except", r.status, r.body, "write")
    /\ assess_unchanged

\* provider = GeminiProvider()
SpeakingConstruct ==
    /\ job.fn = "submit_speaking" /\ job.pc = "construct"
    /\ LET o == construct_gemini(job.has_credential)
           r == speaking_view_except(o.raised)
       IN  IF o.raised # "none"
           THEN Leave("except", r.status, r.body, "missing_credential")
           ELSE job' = [job EXCEPT !.pc = "upload"]
    /\ assess_unchanged

\* genai.upload_file, inside the try of evaluate_speaking_audio.
SpeakingUpload(ok) ==
    /\ job.fn = "submit_speaking" /\ job.pc = "upload"
    /\ IF ok
       THEN job' = [job EXCEPT !.pc = "grade"]
       ELSE Leave("return", HTTP_200_OK, speaking_fault("UploadError"), "upload")
    /\ assess_unchanged

\* model.generate_content and response.text
SpeakingGrade(out) ==
    /\ job.fn = "submit_speaking" /\ job.pc = "grade"
    /\ LET called == [job EXCEPT !.generate_calls = Append(@, speaking_generate_call)]
       IN  job' = IF out.raises \/ ~out.has_text
                  THEN [called EXCEPT !.pc = exit_pc("return"),
                                      !.status = HTTP_200_OK,
                                      !.result = speaking_fault("ProviderError"),
                                      !.fault = "grading"]
                  ELSE [called EXCEPT !.response = Responded(out),
                                      !.doc = out.doc, !.form = out.form,
                                      !.pc = "parse"]
    /\ assess_unchanged

\* The parsing of the grade and return Response(result).
SpeakingParse ==
    /\ job.fn = "submit_speaking" /\ job.pc = "parse"
    /\ LET o == speaking_parse(job.response.text)
       IN  IF o.raised # "none"
           THEN Leave("return", HTTP_200_OK, speaking_fault(o.raised), "grading")
           ELSE Leave("return", HTTP_200_OK, o.result, "none")
    /\ assess_unchanged

\* The finally clause of submit_speaking.
SpeakingFinally ==
    /\ job.fn = "submit_speaking" /\ job.pc = "finally"
    /\ job' = [job EXCEPT !.temp_file = unlink_if_exists(@), !.pc = "returned"]
    /\ assess_unchanged

NextAssess ==
    \/ \E c \in QuizContentIds, n \in TextLens, sl \in SlideLists :
           StartGenerateQuiz(c, n, sl)
    \/ QuizLookup
    \/ \E out \in RetrieveOutcomes : QuizRetrieve(out)
    \/ \E out \in QuizOutcomes : QuizGenerate(out)
    \/ QuizParse
    \/ StartEvaluateStandard
    \/ StandardConstruct
    \/ \E out \in GenerateOutcomes("ollama", StandardTexts) : StandardGenerate(out)
    \/ StandardReturn
    \/ \E p \in Providers, k \in BOOLEAN : StartEvaluateDescriptive(p, k)
    \/ DescriptiveConstruct
    \/ \E out \in GenerateOutcomes("ollama", DescriptiveTexts) :
           DescriptiveGenerate(out)
    \/ DescriptiveParse
    \/ \E a \in BOOLEAN, e \in Extensions, k \in BOOLEAN : StartSubmitSpeaking(a, e, k)
    \/ \E ok \in BOOLEAN : SpeakingWrite(ok)
    \/ SpeakingConstruct
    \/ \E ok \in BOOLEAN : SpeakingUpload(ok)
    \/ \E out \in SpeakingTexts \cup {Raises} : SpeakingGrade(out)
    \/ SpeakingParse
    \/ SpeakingFinally

SpecAssess == Init /\ [][NextAssess]_vars

\* ------------------------------------------------------------- properties
Rows == 1..Len(store)

ContentRows == {i \in Rows : store[i].content # NULL}

ModuleRows == {i \in Rows : store[i].module # NULL /\ store[i].content = NULL}

PathRows == {i \in Rows : store[i].module = NULL /\ store[i].content = NULL}

\* The rows of table s stored under one key.
KeyRows(s, u, p, m, c) ==
    {i \in 1..Len(s) : <<s[i].user, s[i].learning_path, s[i].module, s[i].content>>
                          = <<u, p, m, c>>}

\* The content-level rows of user u for content c.
RowsOfContent(s, u, c) ==
    KeyRows(s, u, ModulePath[ContentModule[c]], ContentModule[c], c)

IsCompleted(s, u, c) ==
    \E i \in RowsOfContent(s, u, c) : s[i].status = "completed"

\* How many content items of module m user u has completed.
NumCompleted(s, u, m) ==
    Cardinality({c \in Contents : ContentModule[c] = m /\ IsCompleted(s, u, c)})

ModuleCompleted(s, u, m) ==
    \E i \in KeyRows(s, u, ModulePath[m], m, NULL) : s[i].status = "completed"

\* How many modules of path p have a completed module-level row of user u.
NumCompletedModules(s, u, p) ==
    Cardinality({m \in Modules : ModulePath[m] = p /\ ModuleCompleted(s, u, m)})

ContentOp == last_request.op \in {"mark_complete", "update_progress"}

\* A worker whose request has returned (a response, or a 500 after a raise).
Finished(w) == reqs[w].pc \in {"done", "failed"}

\* C1: at most one progress record exists per key (user, learning path,
\* module-or-NULL, content-or-NULL), under every interleaving of concurrent
\* requests.
C1_OneRecordPerKey ==
    \A i, j \in Rows :
        i # j => <<store[i].user, store[i].learning_path, store[i].module,
                   store[i].content>>
                 # <<store[j].user, store[j].learning_path, store[j].module,
                     store[j].content>>

\* C2: every progress record has progress_percentage >= 100 exactly when its
\* status is completed, after any sequence of update_progress and
\* mark_complete requests served one at a time.
C2_StatusMatchesPercentage ==
    \A i \in Rows :
        FracGE(store[i].progress_percentage, 100) <=> store[i].status = "completed"

\* C3: completed is terminal for a content-level record: no request served
\* after the record became completed gives it another status.
C3_CompletedIsTerminal ==
    [][\A i \in ContentRows :
          store[i].status = "completed" => store'[i].status = "completed"]_vars

\* A completed content record that a later update_progress with a percentage
\* below 100 has written.
C3_Witness ==
    /\ last_request.op = "update_progress"
    /\ last_request.pct = 50
    /\ \E i \in RowsOfContent(store, last_request.user, last_request.content) :
          /\ store[i].status = "completed"
          /\ store[i].progress_percentage = Frac(50, 1)

\* C4: when a mark_complete and an update_progress with a percentage below 100
\* of one user on one content item run concurrently, the content record is
\* completed once both have returned: the completion is not overwritten by
\* the writer that read the record before it.
C4_CompletionSurvives ==
    \A v, w \in Workers :
        (/\ Finished(v) /\ Finished(w)
         /\ reqs[v].op = "mark_complete"
         /\ reqs[w].op = "update_progress"
         /\ reqs[w].pct < 100
         /\ reqs[v].user = reqs[w].user
         /\ reqs[v].content = reqs[w].content)
        => \A i \in RowsOfContent(store, reqs[v].user, reqs[v].content) :
              store[i].status = "completed"

\* The time_spent_minutes of user u on content c (0 while there is no record).
TimeSpent(s, u, c) ==
    IF RowsOfContent(s, u, c) = {}
    THEN 0
    ELSE s[CHOOSE i \in RowsOfContent(s, u, c) : TRUE].time_spent_minutes

\* C5: once concurrent update_progress requests have all returned, the
\* time_spent of each record they wrote is the sum of the time deltas sent.
C5_NoLostTime ==
    (\A w \in Workers : Finished(w) /\ reqs[w].op = "update_progress")
    => \A u \in Users, c \in Contents :
          TimeSpent(store, u, c) = time_total[<<u, c>>]

\* C6: over update_progress requests served one at a time on one key,
\* time_spent never decreases from one call to the next, and after each call
\* it is the sum of the time deltas passed so far.
C6_TimeSpentAccumulates ==
    [][last_request'.op = "update_progress" =>
          LET u == last_request'.user
              c == last_request'.content
          IN  /\ TimeSpent(store', u, c) >= TimeSpent(store, u, c)
              /\ TimeSpent(store', u, c) = time_total'[<<u, c>>]]_vars

\* C7: every progress record's progress_percentage lies in [0, 100].
C7_PercentageInRange ==
    \A i \in Rows : /\ FracGE(store[i].progress_percentage, 0)
                    /\ FracLE(store[i].progress_percentage, 100)

\* C8: mark_complete leaves the content record completed at 100 percent, and a
\* second mark_complete in a row for the same user and content changes neither
\* that record's status, percentage and completed_at nor the status and
\* percentage of any other record.
C8_MarkCompleteIdempotent ==
    [][last_request'.op = "mark_complete" =>
          /\ \A i \in RowsOfContent(store', last_request'.user, last_request'.content) :
                /\ store'[i].status = "completed"
                /\ store'[i].progress_percentage = Frac(100, 1)
          /\ last_request = last_request' =>
                /\ Len(store') = Len(store)
                /\ \A i \in Rows :
                      /\ store'[i].status = store[i].status
                      /\ store'[i].progress_percentage = store[i].progress_percentage
                      /\ store[i].content # NULL =>
                            store'[i].completed_at = store[i].completed_at]_vars

\* C9: a module-level record's percentage is 100 * (completed content records
\* of the module) / (content items of the module); it is completed when all
\* items are completed and in_progress when some but not all are; and every
\* content operation leaves exactly one such record for its module.
C9_ModuleRollup ==
    /\ \A i \in ModuleRows :
          LET k == NumCompleted(store, store[i].user, store[i].module)
              n == Cardinality({c \in Contents : ContentModule[c] = store[i].module})
              q == store[i].progress_percentage
          IN  /\ q.num * n = 100 * k * q.den
              /\ k = n => store[i].status = "completed"
              /\ (0 < k /\ k < n) => store[i].status = "in_progress"
    /\ ContentOp =>
          Cardinality(KeyRows(store, last_request.user,
                              ModulePath[ContentModule[last_request.content]],
                              ContentModule[last_request.content], NULL)) = 1

\* One of two items completed in m1 (50 percent, in_progress) and the only
\* item of m2 completed (100 percent, completed), by mark_complete.
C9_Witness ==
    /\ last_request.op = "mark_complete"
    /\ \E i \in ModuleRows : /\ store[i].module = "m1"
                             /\ NumCompleted(store, store[i].user, "m1") = 1
                             /\ store[i].progress_percentage = Frac(50, 1)
                             /\ store[i].status = "in_progress"
    /\ \E i \in ModuleRows : /\ store[i].module = "m2"
                             /\ store[i].progress_percentage = Frac(100, 1)
                             /\ store[i].status = "completed"

\* C10: a path-level record's percentage is 100 * (modules whose module-level
\* record is completed) / (modules of the path), a module that is not completed
\* counting for nothing; every content operation leaves exactly one such
\* record, and it is completed as soon as every content item of the path is.
C10_PathRollup ==
    /\ \A i \in PathRows :
          LET k == NumCompletedModules(store, store[i].user, store[i].learning_path)
              n == Cardinality({m \in Modules : ModulePath[m] = store[i].learning_path})
              q == store[i].progress_percentage
          IN  /\ q.num * n = 100 * k * q.den
              /\ (/\ \E c \in Contents :
                        ModulePath[ContentModule[c]] = store[i].learning_path
                  /\ \A c \in Contents :
                        ModulePath[ContentModule[c]] = store[i].learning_path
                            => IsCompleted(store, store[i].user, c))
                    => store[i].status = "completed"
    /\ ContentOp =>
          Cardinality(KeyRows(store, last_request.user,
                              ModulePath[ContentModule[last_request.content]],
                              NULL, NULL)) = 1

\* The request that completed the last item of the last incomplete module
\* has left the path completed; before it one module was completed and the
\* other was at 50 percent, and the path stood at 50 percent.
C10_Witness ==
    /\ ContentOp
    /\ \A c \in Contents : IsCompleted(store, last_request.user, c)
    /\ \E i \in PathRows : /\ store[i].status = "completed"
                           /\ store[i].progress_percentage = Frac(100, 1)
                           /\ store[i].completed_at = Some(now)

\* C11: a rollup on a module without content items, or on a path without
\* modules, returns without raising and leaves the table as it was: no record
\* is modified and none is created.
C11_EmptyRollupIsNoOp ==
    [][(\/ /\ last_request'.op = "rollup_module"
           /\ \A c \in Contents : ContentModule[c] # last_request'.module
        \/ /\ last_request'.op = "rollup_path"
           /\ \A m \in Modules : ModulePath[m] # last_request'.path)
       => /\ last_request'.outcome = "returned"
          /\ store' = store]_vars

\* A rollup of the empty path p2 has run while a path-level record of p2
\* (created by enroll) exists, and a rollup of the empty module m3 has run.
C11_Witness ==
    /\ last_request.op = "rollup_path"
    /\ last_request.path = "p2"
    /\ \E i \in PathRows : store[i].learning_path = "p2"

\* The user of the last request holds an active enrollment in the path of
\* the content item the request was about.
ActivelyEnrolled ==
    LET k == <<last_request.user, ModulePath[ContentModule[last_request.content]]>>
    IN  k \in DOMAIN enrollments /\ enrollments[k]

\* C12: mark_complete and update_progress do not depend on the enrollment:
\* called by a user with no enrollment, or an inactive one, in the path, they
\* write the content-level record and leave a module-level and a path-level
\* record behind; a path-level record of a user who never enrolled starts from
\* the default status not_started (it keeps it while its percentage is 0).
C12_NoEnrollmentNeeded ==
    (ContentOp /\ ~ActivelyEnrolled) =>
        LET u == last_request.user
            c == last_request.content
            m == ContentModule[c]
            p == ModulePath[m]
        IN  /\ Cardinality(KeyRows(store, u, p, m, c)) = 1
            /\ Cardinality(KeyRows(store, u, p, m, NULL)) = 1
            /\ Cardinality(KeyRows(store, u, p, NULL, NULL)) = 1
            /\ \A i \in KeyRows(store, u, p, m, NULL) :
                   store[i].progress_percentage =
                          Frac(100 * NumCompleted(store, u, m),
                               Cardinality({d \in Contents : ContentModule[d] = m}))
            /\ \A i \in KeyRows(store, u, p, NULL, NULL) :
                   (<<u, p>> \notin DOMAIN enrollments
                      /\ store[i].progress_percentage = Frac(0, 1))
                       => store[i].status = "not_started"

\* mark_complete has run for a user whose enrollment in the path is inactive
\* (enrolled, then unenrolled).
C12_Witness ==
    /\ last_request.op = "mark_complete"
    /\ <<last_request.user, ModulePath[ContentModule[last_request.content]]>>
           \in DOMAIN enrollments
    /\ ~ActivelyEnrolled

\* ---------------------------------------------- properties of the assessment
\* The call fn has returned to its caller (by a return or by a raise).
Returned(fn) == job.fn = fn /\ job.pc = "returned"

\* The document the provider wrapped in its text is a JSON document.
DocIsJson == json_loads(job.doc).ok

\* C13: generate_quiz never lets a fault reach its caller: whether the content
\* is missing, the retrieval or the provider's generate raises, the response
\* has no text field or its text is no JSON, generate_quiz returns a value, and
\* that value is a dict with an "error" entry.
C13_QuizFaultsAreReturned ==
    Returned("generate_quiz") =>
        /\ job.raised = "none"
        /\ (job.fault # "none" \/ ~DocIsJson)
               => job.result.kind = "dict" /\ has_key(job.result, Key.error)

\* generate_quiz has returned after the provider's generate raised.
C13_Witness ==
    /\ Returned("generate_quiz")
    /\ job.fault = "provider"
    /\ job.generate_calls # <<>>

\* C17: the parsing in generate_quiz does not depend on the fencing: for a JSON
\* object J, the fenced texts (closing fence present, whitespace around or
\* not) and the texts with an opening fence only are parsed to the value of
\* the bare J.
C17_FencingDoesNotMatter ==
    (/\ Returned("generate_quiz")
     /\ job.response.has_text
     /\ DocIsJson
     /\ json_loads(job.doc).val.kind = "dict")
        => job.result = json_loads(job.doc).val

\* The length of the blob built from the content of the job: the segments of
\* the context that come from the text and the slides.
RECURSIVE BlobLen(_)
BlobLen(ctx) ==
    IF ctx = <<>> THEN 0
    ELSE (IF ctx[1].part \in {"text", "slide"} THEN ctx[1].len ELSE 0)
             + BlobLen(Tail(ctx))

PartRank(part) == CASE part = "text" -> 1 [] part = "slide" -> 2 [] part = "passage" -> 3

\* C18: generate_quiz calls the retrieval exactly once, with top_k = 3 and a
\* filter on the content id, if and only if the blob built from the text and
\* the slides is shorter than 100 characters; with 100 characters or more it
\* makes no retrieval call; the passages come after the text and the slides.
C18_RetrievalIffShortBlob ==
    job.fn = "generate_quiz" =>
        /\ (job.exists /\ job.pc \in {"generate", "parse", "returned"}) =>
               /\ BlobLen(job.context) < 100 <=> Len(job.retrieve_calls) = 1
               /\ BlobLen(job.context) >= 100 => job.retrieve_calls = <<>>
        /\ ~job.exists => job.retrieve_calls = <<>>
        /\ \A i \in 1..Len(job.retrieve_calls) :
               job.retrieve_calls[i] = [top_k |-> 3, filter_content_id |-> job.content_id]
        /\ \A i, j \in 1..Len(job.context) :
               i < j => PartRank(job.context[i].part) <= PartRank(job.context[j].part)

\* One retrieval call was made for a content whose slides add up to 99
\* characters, and its passages stand after the slides.
C18_Witness ==
    /\ Returned("generate_quiz")
    /\ BlobLen(job.context) = 99
    /\ Len(job.retrieve_calls) = 1
    /\ \E i \in 1..Len(job.context) : job.context[i].part = "passage"
    /\ job.context[1].part = "slide"

\* ---- equality of answers, as the specification words it
RECURSIVE DropLeadingSpace(_)
DropLeadingSpace(s) ==
    IF s # <<>> /\ Head(s) \in Whitespace THEN DropLeadingSpace(Tail(s)) ELSE s

Reversed(s) == [i \in 1..Len(s) |-> s[Len(s) + 1 - i]]

Trimmed(s) == Reversed(DropLeadingSpace(Reversed(DropLeadingSpace(s))))

SameLetter(a, b) ==
    \/ a = b
    \/ \E k \in 1..26 : {a, b} = {UpperCase[k], LowerCase[k]}

SameIgnoringCase(s, t) ==
    Len(s) = Len(t) /\ \A i \in 1..Len(s) : SameLetter(s[i], t[i])

\* C19: in standard mode is_correct is true exactly when the user's answer and
\* the correct answer are equal after trimming the surrounding whitespace and
\* ignoring letter case, whatever the provider's text and the context are.
C19_StandardIsCorrect ==
    (Returned("evaluate_answer") /\ job.raised = "none") =>
        /\ job.result.kind = "dict"
        /\ dict_get(job.result, Key.is_correct, JLiteral("None")) =
               PyBool(SameIgnoringCase(Trimmed(job.user_answer),
                                       Trimmed(job.correct_answer)))

\* Two answers that differ as written are found equal.
C19_Witness ==
    /\ Returned("evaluate_answer")
    /\ job.user_answer = <<" ", "a">>
    /\ job.correct_answer = <<"A">>
    /\ dict_get(job.result, Key.is_correct, JLiteral("None")) = PyBool(TRUE)

\* The level_of_correctness of the document the provider wrapped, when that
\* document is a JSON object with a string under that key.
DocLevelIsCorrect ==
    /\ DocIsJson
    /\ json_loads(job.doc).val.kind = "dict"
    /\ dict_get(json_loads(job.doc).val, Key.level_of_correctness, JLiteral("None")).kind = "str"
    /\ SameIgnoringCase(dict_get(json_loads(job.doc).val, Key.level_of_correctness, JLiteral("None")).str,
                        Word.correct)

\* C14: _evaluate_descriptive_answer never raises: whatever the provider does
\* (construction fails, generate raises, any text, JSON that is no object or
\* whose level is no string) it returns a dict whose is_correct is false
\* unless the level of the response is "correct" in any letter case; when the
\* text holds no JSON the result is level "Unknown", is_correct false, the raw
\* text as feedback and an error entry.
C14_DescriptiveNeverRaises ==
    Returned("_evaluate_descriptive_answer") =>
        /\ job.raised = "none"
        /\ job.result.kind = "dict"
        /\ dict_get(job.result, Key.is_correct, JLiteral("None")).kind \in {"True", "False"}
        /\ dict_get(job.result, Key.is_correct, JLiteral("None")) = PyBool(TRUE)
               => job.fault = "none" /\ DocLevelIsCorrect
        /\ (job.fault = "none" /\ ~DocIsJson) =>
               /\ dict_get(job.result, Key.is_correct, JLiteral("None")) = PyBool(FALSE)
               /\ dict_get(job.result, Key.level_of_correctness, JLiteral("None")) = JString(Word.Unknown)
               /\ dict_get(job.result, Key.feedback, JLiteral("None"))
                      = JString(job.response.text)
               /\ has_key(job.result, Key.error)

\* A response whose level_of_correctness is a number has been evaluated.
C14_Witness ==
    /\ Returned("_evaluate_descriptive_answer")
    /\ job.doc = Doc.level_number
    /\ dict_get(job.result, Key.is_correct, JLiteral("None")) = PyBool(FALSE)

\* C15: the temp file submit_speaking creates is gone when the request
\* returns, on every exit path.
C15_TempFileDeleted ==
    Returned("submit_speaking") => job.temp_file # "exists"

\* The request has returned after the write of the temp file failed, and the
\* file is deleted.
C15_Witness ==
    /\ Returned("submit_speaking")
    /\ job.fault = "write"
    /\ job.temp_file = "deleted"

\* C16: a missing credential is answered 503, never 500 and never with a
\* grade; a fault while uploading or grading is never answered 503.
C16_MissingCredentialIs503 ==
    Returned("submit_speaking") =>
        /\ (~job.has_credential /\ job.fault \notin {"no_audio", "write"}) =>
               /\ job.status = 503
               /\ ~has_key(job.result, Key.grade)
        /\ job.fault \in {"upload", "grading"} => job.status # 503
        /\ job.status = 503 => ~job.has_credential

\* The request has been answered 503.
C16_Witness ==
    /\ Returned("submit_speaking")
    /\ job.fault = "missing_credential"
    /\ job.status = 503
    /\ job.temp_file = "deleted"

\* C20: every result of evaluate_speaking_audio carries a grade that is a
\* number between 0 and 100, whatever the model answered.
C20_GradeInRange ==
    (job.fn = "submit_speaking" /\ job.status = 200) =>
        LET grade == dict_get(job.result, Key.grade, JLiteral("None"))
        IN  /\ grade.kind = "int"
            /\ grade.num >= 0
            /\ grade.num <= 100

\* C21: a provider fault can be told from a parse failure: when the provider's
\* generate call failed (its result has finish_reason "error" and an error
\* field), generate_quiz and evaluate_answer (either mode) return a result that
\* is marked with an error entry, and that entry is not the one of a response
\* whose text could not be parsed.
C21_ProviderFaultIsDistinct ==
    (/\ job.pc = "returned"
     /\ job.fn \in {"generate_quiz", "evaluate_answer", "_evaluate_descriptive_answer"}
     /\ job.response.has_error)
        => /\ has_key(job.result, Key.error)
           /\ dict_get(job.result, Key.error, JLiteral("None"))
                  \notin {Msg("Failed to generate valid quiz format"),
                          Msg("Could not parse JSON response")}

\* C22: completed_at is set on the first transition into completed only: once
\* a record of any level has a completed_at, no request served later
\* (update_progress, mark_complete, or the rollups they run) changes it.
C22_CompletedAtSetOnce ==
    [][\A i \in Rows :
          store[i].completed_at # None
              => store'[i].completed_at = store[i].completed_at]_vars

\* The status that goes with a percentage.
StatusOf(q) ==
    IF q.num = 0 THEN "not_started"
    ELSE IF FracGE(q, 100) THEN "completed" ELSE "in_progress"

\* C23: a rollup derives the status from the percentage it writes: after a
\* content operation the module-level and the path-level record it rolled up
\* are not_started at 0 percent, in_progress strictly between 0 and 100 and
\* completed at 100, whatever their status was before (a path-level record
\* created by enroll included).
C23_RollupStatusFromPercentage ==
    ContentOp =>
        LET u == last_request.user
            m == ContentModule[last_request.content]
            p == ModulePath[m]
        IN  \A i \in KeyRows(store, u, p, m, NULL) \cup KeyRows(store, u, p, NULL, NULL) :
                store[i].status = StatusOf(store[i].progress_percentage)

\* C24: rollups converge under concurrency: when the workers have served
\* mark_complete requests of one user on distinct content items of one module
\* and all have returned without a fault, the module-level record (taken here
\* to be the only one of its key) holds 100 * (completed content records) /
\* (content items) and is completed when every item is: no value computed
\* from a stale set of siblings remains.
C24_RollupConverges ==
    (/\ \A w \in Workers : reqs[w].pc = "done" /\ reqs[w].op = "mark_complete"
     /\ \A v, w \in Workers :
           /\ reqs[v].user = reqs[w].user
           /\ ContentModule[reqs[v].content] = ContentModule[reqs[w].content]
           /\ v # w => reqs[v].content # reqs[w].content)
        => \A w \in Workers :
              LET u == reqs[w].user
                  m == ContentModule[reqs[w].content]
                  n == Cardinality({c \in Contents : ContentModule[c] = m})
                  k == NumCompleted(store, u, m)
                  rows == KeyRows(store, u, ModulePath[m], m, NULL)
              IN  Cardinality(rows) = 1 =>
                     \A i \in rows :
                        /\ store[i].progress_percentage.num * n
                               = 100 * k * store[i].progress_percentage.den
                        /\ k = n => store[i].status = "completed"

\* C25: evaluate_answer in standard mode never lets a provider fault reach its
\* caller: whether the provider cannot be constructed, its generate raises or
\* its result has no text field, the call returns a value, and that value is
\* a dict with an error entry.
C25_StandardFaultsAreReturned ==
    Returned("evaluate_answer") =>
        /\ job.raised = "none"
        /\ job.fault # "none"
               => job.result.kind = "dict" /\ has_key(job.result, Key.error)

\* A quiz of the wire schema: an object with a questions list whose entries
\* are objects with id, question, exactly four options, correct_answer and
\* explanation.
IsQuiz(v) ==
    /\ v.kind = "dict"
    /\ has_key(v, Key.questions)
    /\ LET qs == dict_get(v, Key.questions, JLiteral("None"))
       IN  /\ qs.kind = "list"
           /\ \A i \in 1..Len(qs.items) :
                 LET q == qs.items[i]
                 IN  /\ q.kind = "dict"
                     /\ \A k \in {Key.id, Key.question, Key.options,
                                  Key.correct_answer, Key.explanation} : has_key(q, k)
                     /\ dict_get(q, Key.options, JLiteral("None")).kind = "list"
                     /\ Len(dict_get(q, Key.options, JLiteral("None")).items) = 4

\* C26: generate_quiz returns a quiz of the wire schema or an error: model
\* output that is JSON of another shape (a list, an object without questions,
\* a question without four options) comes back as a dict with an error entry,
\* never as the quiz.
C26_QuizOrError ==
    (Returned("generate_quiz") /\ job.raised = "none") =>
        \/ IsQuiz(job.result)
        \/ job.result.kind = "dict" /\ has_key(job.result, Key.error)

\* C27: the fallback of the descriptive evaluation recovers JSON wrapped in
\* prose or stray markers: when the response is a JSON object whose level is
\* "correct" preceded by the word json, or followed by a stray fence, the
\* result carries that level and is_correct true, not "Unknown".
C27_FallbackRecovers ==
    (/\ Returned("_evaluate_descriptive_answer")
     /\ job.fault = "none"
     /\ job.form \in {"json_word", "stray_fence"}
     /\ DocLevelIsCorrect)
        => /\ dict_get(job.result, Key.is_correct, JLiteral("None")) = PyBool(TRUE)
           /\ dict_get(job.result, Key.level_of_correctness, JLiteral("None"))
                  = dict_get(json_loads(job.doc).val, Key.level_of_correctness,
                             JLiteral("None"))

\* The calls that use the provider's generate capability.
UsesGenerate ==
    job.fn \in {"generate_quiz", "evaluate_answer", "_evaluate_descriptive_answer"}

\* C28 as claimed: every execution of generate_quiz for an existing content
\* item, and of evaluate_answer in either mode, has invoked the provider's
\* generate exactly once when it returns.
C28_ExactlyOneCall ==
    (UsesGenerate /\ job.pc = "returned" /\ (job.fn = "generate_quiz" => job.exists))
        => Len(job.generate_calls) = 1

\* C28 amended: the provider's generate is never invoked a second time, also
\* not after a provider error or a parse failure; it has been invoked exactly
\* once when the call returns, unless the call ended before reaching it (the
\* content is missing, the retrieval raised, or the provider could not be
\* constructed), and then it was not invoked at all.
C28_NoRetry ==
    UsesGenerate =>
        /\ Len(job.generate_calls) <= 1
        /\ job.pc = "returned" =>
              IF job.fault \in {"not_found", "retrieval", "missing_credential"}
              THEN job.generate_calls = <<>>
              ELSE Len(job.generate_calls) = 1

\* A descriptive evaluation has returned the parse-failure result after its
\* one provider call.
C28_Witness ==
    /\ Returned("_evaluate_descriptive_answer")
    /\ job.fault = "none"
    /\ has_key(job.result, Key.error)
    /\ Len(job.generate_calls) = 1

\* The key of a row.
KeyOf(r) == <<r.user, r.learning_path, r.module, r.content>>

\* C29: progress flows bottom-up and stays within its key: a mark_complete or
\* update_progress of user u on content c creates or changes at most three
\* records, all among u's record of c, u's record of c's module and u's record
\* of c's path; a rollup called on its own creates or changes at most its own
\* module-level or path-level record and no content-level record; no record
\* is removed.
C29_WritesStayInKey ==
    [][LET touched == {i \in 1..Len(store') :
                          i > Len(store) \/ store'[i] # store[i]}
           r == last_request'
           keys ==
               CASE r.op \in {"mark_complete", "update_progress"} ->
                        LET m == ContentModule[r.content]
                        IN  {<<r.user, ModulePath[m], m, r.content>>,
                             <<r.user, ModulePath[m], m, NULL>>,
                             <<r.user, ModulePath[m], NULL, NULL>>}
                 [] r.op = "rollup_module" ->
                        {<<r.user, ModulePath[r.module], r.module, NULL>>}
                 [] r.op = "rollup_path" ->
                        {<<r.user, r.path, NULL, NULL>>}
                 [] OTHER -> {}
       IN  /\ Len(store') >= Len(store)
           /\ Cardinality(touched) <= Cardinality(keys)
           /\ \A i \in touched : KeyOf(store'[i]) \in keys]_vars

\* mark_complete of u1 on c3 has written its three records while the table
\* holds records of the other account and of the other module.
C29_Witness ==
    /\ last_request.op = "mark_complete"
    /\ last_request.user = "u1"
    /\ last_request.content = "c3"
    /\ \E i \in Rows : store[i].user = "u2" /\ store[i].module = "m2"
    /\ \E i \in Rows : store[i].user = "u1" /\ store[i].module = "m1"
    /\ \E i \in KeyRows(store, "u1", "p1", "m2", NULL) : store[i].completed_at = Some(now)

====
